---- MODULE Spec2Model ----
(***************************************************************************)
(* Model of the kapan position-move front end:                             *)
(*   - app/api/token-info/route.ts          (GET price resolver)           *)
(*   - components/modals/MovePositionModal  (validation, plan building)    *)
(*   - components/specific/collateral/*     (selection and amounts)        *)
(* Strings that the code inspects character by character (symbols, amount  *)
(* texts) are sequences of one-character strings.                          *)
(***************************************************************************)
EXTENDS Integers, Sequences, FiniteSets, TLC

VARIABLES
  \* token-info route
  apiPhase, apiIn, apiOut,
  \* MovePositionModal: props and reads
  position, fromProtocol, chainId, isOpen, userAddress, decimals, tokenBalance,
  flashFlags, fetchedCollats, supportedCollaterals,
  \* MovePositionModal: component state
  destProtocol, flashProvider, tokenToPrices, selectedCollats, amount, isMaxDebt,
  loading, err, collateralOpen, probes, confirmCalls,
  \* CollateralSelector: component state
  selectedCollaterals, showUnsupported,
  \* CollateralAmounts: the collaterals prop held by its parent
  caCollaterals,
  \* useTokenPriceApi: the symbol argument, the life of the hook instance, its
  \* state, the controller in abortRef, the requests started and the request
  \* that wrote the state last
  hookSymbol, hookPhase, hookState, abortRef, hookReqs, hookWriter,
  \* MoveSupplyModal: props, wallet, component state, executor promises in
  \* flight and the calls of the handleMove that ran in the step
  msOpen, msRawBalance, msAddress, msStatus, msHash, msSelectedProtocol,
  msIsEditing, msTransferAmount, msInputValue, msPending, msCalls, msFromProtocol

apiVars   == <<apiPhase, apiIn, apiOut>>
propVars  == <<position, fromProtocol, chainId>>
readVars  == <<userAddress, decimals, tokenBalance, flashFlags, fetchedCollats,
               supportedCollaterals>>
formVars  == <<destProtocol, flashProvider, tokenToPrices, amount, isMaxDebt>>
runVars   == <<isOpen, loading, err>>
selVars   == <<selectedCollats, selectedCollaterals, showUnsupported>>
modalVars == <<propVars, readVars, formVars, runVars, selVars, collateralOpen, probes,
               confirmCalls>>
caVars    == <<caCollaterals>>
hookVars  == <<hookSymbol, hookPhase, hookState, abortRef, hookReqs, hookWriter>>
msVars    == <<msOpen, msRawBalance, msAddress, msStatus, msHash, msSelectedProtocol,
               msIsEditing, msTransferAmount, msInputValue, msPending, msCalls,
               msFromProtocol>>
sideVars  == <<caVars, hookVars, msVars>>

vars == <<apiVars, modalVars, sideVars>>

\* null / undefined of a string-valued field
NULL == "null"

\* an optional non-string value (number | null, T | undefined) is the empty
\* set when absent and a singleton when present
None == {}
Some(x) == {x}
IsNone(o) == o = {}
The(o) == CHOOSE x \in o : TRUE

(***************************************************************************)
(* Generic sequence helpers                                                *)
(***************************************************************************)
RECURSIVE SeqFilterIdx(_, _, _)
\* indices i >= from of s whose element is in keep, as a subsequence of s
SeqFilterIdx(s, keep, from) ==
  IF from > Len(s) THEN <<>>
  ELSE IF s[from] \in keep THEN <<s[from]>> \o SeqFilterIdx(s, keep, from + 1)
  ELSE SeqFilterIdx(s, keep, from + 1)

Range(s) == {s[i] : i \in 1..Len(s)}

(***************************************************************************)
(* Character level string functions used by route.ts                       *)
(***************************************************************************)
Upper == <<"A","B","C","D","E","H","I","R","S","T","U","V","W","X">>
Lower == <<"a","b","c","d","e","h","i","r","s","t","u","v","w","x">>

\* String.prototype.toLowerCase on one character
LowerChar(c) ==
  IF \E i \in 1..Len(Upper) : Upper[i] = c
  THEN Lower[CHOOSE i \in 1..Len(Upper) : Upper[i] = c]
  ELSE c

toLowerCase(s) == [i \in 1..Len(s) |-> LowerChar(s[i])]

WhiteSpace == {" ", "\t"}

RECURSIVE TrimLeft(_)
TrimLeft(s) ==
  IF s # <<>> /\ Head(s) \in WhiteSpace THEN TrimLeft(Tail(s)) ELSE s

RECURSIVE TrimRight(_)
TrimRight(s) ==
  IF s # <<>> /\ s[Len(s)] \in WhiteSpace THEN TrimRight(SubSeq(s, 1, Len(s) - 1)) ELSE s

\* trim that leaves its argument as it is
trim_none(s) == s

\* String.prototype.trim
trim(s) == TrimRight(TrimLeft(s))

\* \w of a JavaScript regular expression
IsWordChar(c) ==
  \/ \E i \in 1..Len(Upper) : Upper[i] = c \/ Lower[i] = c
  \/ c \in {"0","1","2","3","4","5","6","7","8","9","_"}

\* \b just before position i (1..Len(s)+1)
WordBoundary(s, i) ==
  LET before == i > 1 /\ IsWordChar(s[i - 1])
      after  == i <= Len(s) /\ IsWordChar(s[i])
  IN before # after

\* literal w occurs in s starting at position i
LitAt(s, w, i) == i + Len(w) - 1 <= Len(s) /\ SubSeq(s, i, i + Len(w) - 1) = w

Contains(s, w) == \E i \in 1..Len(s) : LitAt(s, w, i)

ContainsWord(s, w) ==
  \E i \in 1..Len(s) : LitAt(s, w, i) /\ WordBoundary(s, i) /\ WordBoundary(s, i + Len(w))

EthWords == { <<"w","e","t","h">>, <<"e","t","h">>, <<"s","t","e","t","h">>,
              <<"r","e","t","h">>, <<"c","b","e","t","h">>, <<"a","e","t","h">>,
              <<"b","e","t","h">> }

UsdParts == { <<"u","s","d","c">>, <<"u","s","d","t">>, <<"t","u","s","d">>,
              <<"s","u","s","d">>, <<"f","d","u","s","d">>, <<"u","s","d","e">>,
              <<"u","s","d","d">> }

\* /\b(w?eth|steth|reth|cbeth|aeth|beth)\b/i .test(s)
ethLikeRe(s) == \E w \in EthWords : ContainsWord(toLowerCase(s), w)

\* /\busd\b|usdc|usdt|tusd|susd|fdusd|usde|usdd/i .test(s)
usdLikeRe(s) ==
  \/ ContainsWord(toLowerCase(s), <<"u","s","d">>)
  \/ \E w \in UsdParts : Contains(toLowerCase(s), w)

(***************************************************************************)
(* token-info route: resolution of the coin id                             *)
(***************************************************************************)
\* Number.MAX_SAFE_INTEGER, capped at the largest integer TLC represents
MAX_SAFE_INTEGER == 2147483647

\* a.market_cap_rank ?? Number.MAX_SAFE_INTEGER
RankKey(c) == IF IsNone(c.market_cap_rank) THEN MAX_SAFE_INTEGER ELSE The(c.market_cap_rank)

\* the comparator of pool.sort: negative when a sorts before b
RankCompare(a, b) == RankKey(a) - RankKey(b)

RECURSIVE InsertSorted(_, _)
\* insert c after every element that does not sort after it (stable)
InsertSorted(sorted, c) ==
  IF sorted = <<>> THEN <<c>>
  ELSE IF RankCompare(Head(sorted), c) <= 0
       THEN <<Head(sorted)>> \o InsertSorted(Tail(sorted), c)
       ELSE <<c>> \o sorted

RECURSIVE SortPool(_)
\* Array.prototype.sort with RankCompare; the sort is stable
SortPool(pool) ==
  IF pool = <<>> THEN <<>>
  ELSE InsertSorted(SortPool(SubSeq(pool, 1, Len(pool) - 1)), pool[Len(pool)])

\* coins.filter(c => (c.symbol || "").toLowerCase() === symLower)
ExactCoins(coins, symbol) ==
  SeqFilterIdx(coins, {c \in Range(coins) : toLowerCase(c.symbol) = toLowerCase(symbol)}, 1)

\* the pool without the preference for exact matches
Pool_all(coins, symbol) == coins

\* const pool = exact.length ? exact : coins
Pool(coins, symbol) ==
  IF Len(ExactCoins(coins, symbol)) > 0 THEN ExactCoins(coins, symbol) ELSE coins

\* resolvedId after the search block, given the parsed coins
ResolveId(coins, symbol) ==
  IF Len(Pool(coins, symbol)) > 0
  THEN (IF SortPool(Pool(coins, symbol))[1].id = "" THEN NULL
        ELSE SortPool(Pool(coins, symbol))[1].id)
  ELSE NULL

(***************************************************************************)
(* token-info route: the GET handler                                       *)
(* An upstream call ends in one of: "reject" (fetch throws), "notok"       *)
(* (res.ok false), "badjson" (res.json() throws) or a parsed body.         *)
(***************************************************************************)
\* CoinGecko quotes per coin id (vs = usd)
Quote == [id \in {"ethereum", "usd-coin", "weth", "weth-bridged", "weth-old", "ethx"} |->
            CASE id = "ethereum" -> 3000
              [] id = "usd-coin" -> 1
              [] id = "weth" -> 2990
              [] id = "weth-bridged" -> 2980
              [] id = "weth-old" -> 2970
              [] OTHER -> 5]

\* the value v = j?.[id]?.[vs] of a parsed /simple/price body, as a number
\* when typeof v === "number" and None otherwise
QuoteValue(kind, id) ==
  CASE kind = "num"  -> Some(Quote[id])
    [] kind = "zero" -> Some(0)
    [] OTHER         -> None

Throws(outcome) == outcome \in {"reject", "badjson"}

\* lines 47-55 and 63-71: one /simple/price lookup starting from price 0 or
\* the price so far; the caller has handled a throwing outcome
PriceAfter(outcome, id, price) ==
  IF outcome = "notok" THEN price
  ELSE IF IsNone(QuoteValue(outcome, id)) THEN price
  ELSE The(QuoteValue(outcome, id))

\* lines 59-61
FallbackId(symbol) ==
  IF ethLikeRe(symbol) THEN "ethereum"
  ELSE IF usdLikeRe(symbol) THEN "usd-coin"
  ELSE NULL

\* an exception that escapes the handler: the framework answers 500
Caught_escapes(calls, resolvedId) ==
  [status |-> 500, price |-> 0, calls |-> calls, resolvedId |-> resolvedId]

\* the catch block, line 76
Caught(calls, resolvedId) ==
  [status |-> 200, price |-> 0, calls |-> calls, resolvedId |-> resolvedId]

\* export async function GET(req): the response and the upstream calls made
GET(in) ==
  LET symbolRaw == IF IsNone(in.symbol) THEN <<>> ELSE The(in.symbol)
      symbol    == trim(symbolRaw)
  IN
  IF symbol = <<>> THEN [status |-> 400, price |-> 0, calls |-> <<>>, resolvedId |-> NULL]
  ELSE
    LET c1 == << [op |-> "search", id |-> NULL, query |-> symbol] >> IN
    IF Throws(in.search) THEN Caught(c1, NULL)
    ELSE
      LET resolvedId == IF in.search = "ok" THEN ResolveId(in.coins, symbol) ELSE NULL
          c2 == IF resolvedId # NULL THEN Append(c1, [op |-> "price", id |-> resolvedId, query |-> <<>>]) ELSE c1
      IN
      IF resolvedId # NULL /\ Throws(in.specific) THEN Caught(c2, resolvedId)
      ELSE
        LET price1 == IF resolvedId # NULL THEN PriceAfter(in.specific, resolvedId, 0) ELSE 0
            fallbackId == IF price1 = 0 THEN FallbackId(symbol) ELSE NULL
            c3 == IF fallbackId # NULL THEN Append(c2, [op |-> "price", id |-> fallbackId, query |-> <<>>]) ELSE c2
        IN
        IF fallbackId # NULL /\ Throws(in.fallback) THEN Caught(c3, resolvedId)
        ELSE
          LET price2 == IF fallbackId # NULL THEN PriceAfter(in.fallback, fallbackId, price1)
                        ELSE price1
          IN [status |-> 200, price |-> price2, calls |-> c3, resolvedId |-> resolvedId]

(***************************************************************************)
(* token-info route: requests and upstream behaviours explored             *)
(***************************************************************************)
\* largest number of coins in a /search result
MaxCoins == 2

ReqSymbols ==
  { None, Some(<<>>), Some(<<" ">>), Some(<<" ", "\t">>),
    Some(<<"W","E","T","H">>), Some(<<" ","e","t","h"," ">>),
    Some(<<"s","t","E","T","H">>), Some(<<"x","e","t","h">>),
    Some(<<"U","S","D","C">>), Some(<<"u","s","d">>), Some(<<"x","u","s","d">>),
    Some(<<"e","t","h","-","u","s","d">>), Some(<<"D","A","I">>) }

CoinPool ==
  { [id |-> "weth",         symbol |-> <<"w","e","t","h">>, market_cap_rank |-> Some(2)],
    [id |-> "weth-bridged", symbol |-> <<"W","E","T","H">>, market_cap_rank |-> None],
    [id |-> "weth-old",     symbol |-> <<"W","e","t","h">>, market_cap_rank |-> Some(2)],
    [id |-> "ethx",         symbol |-> <<"E","T","H","X">>, market_cap_rank |-> Some(1)],
    [id |-> "usd-coin",     symbol |-> <<"u","s","d","c">>, market_cap_rank |-> Some(3)] }

\* search results: sequences of distinct coins, at most MaxCoins long
CoinLists ==
  UNION { { l \in [1..n -> CoinPool] : \A i, j \in 1..n : i # j => l[i] # l[j] } : n \in 0..MaxCoins }

SearchOutcomes == {"reject", "notok", "badjson", "ok"}
PriceOutcomes  == {"reject", "notok", "badjson", "num", "zero", "nonnum"}

ApiInputs ==
  { in \in [symbol : ReqSymbols, search : SearchOutcomes, coins : CoinLists,
            specific : PriceOutcomes, fallback : PriceOutcomes] :
      in.search # "ok" => in.coins = <<>> }

NoInput == [symbol |-> None, search |-> "notok", coins |-> <<>>,
            specific |-> "notok", fallback |-> "notok"]
NoOutput == [status |-> 0, price |-> 0, calls |-> <<>>, resolvedId |-> NULL]

ApiIdle == apiPhase = "idle" /\ apiIn = NoInput /\ apiOut = NoOutput

\* a request arrives and GET runs to its response
ApiRequest ==
  /\ apiPhase = "idle"
  /\ \E in \in ApiInputs :
       /\ apiIn' = in
       /\ apiOut' = GET(in)
  /\ apiPhase' = "responded"
  /\ UNCHANGED <<modalVars, sideVars>>

\* the route is stateless: the next request starts afresh
ApiNext ==
  /\ apiPhase = "responded"
  /\ apiPhase' = "idle"
  /\ apiIn' = NoInput
  /\ apiOut' = NoOutput
  /\ UNCHANGED <<modalVars, sideVars>>

(***************************************************************************)
(* Decimal texts and numbers                                               *)
(* A JavaScript number is a record [nan, v]: v counts units of             *)
(* 10^-FracDigits, exact for the texts and balances explored here.         *)
(***************************************************************************)
\* fractional digits carried by a number of the model
FracDigits == 1

Digits == <<"0","1","2","3","4","5","6","7","8","9">>

IsDigit(c) == \E i \in 1..10 : Digits[i] = c

DigitVal(c) == (CHOOSE i \in 1..10 : Digits[i] = c) - 1

RECURSIVE Pow10(_)
Pow10(n) == IF n <= 0 THEN 1 ELSE 10 * Pow10(n - 1)

RECURSIVE DigitsVal(_)
\* value of a sequence of digits ("" is 0)
DigitsVal(ds) ==
  IF ds = <<>> THEN 0 ELSE 10 * DigitsVal(SubSeq(ds, 1, Len(ds) - 1)) + DigitVal(ds[Len(ds)])

RECURSIVE NatToText(_)
\* BigInt.prototype.toString of a non-negative value
NatToText(n) ==
  IF n < 10 THEN <<Digits[n + 1]>> ELSE NatToText(n \div 10) \o <<Digits[(n % 10) + 1]>>

RECURSIVE DigitPrefixLen(_, _)
\* number of leading digits of s from position from
DigitPrefixLen(s, from) ==
  IF from <= Len(s) /\ IsDigit(s[from]) THEN 1 + DigitPrefixLen(s, from + 1) ELSE 0

RECURSIVE StripTrailingZeros(_)
\* fraction.replace(/(0+)$/, "")
StripTrailingZeros(ds) ==
  IF ds # <<>> /\ ds[Len(ds)] = "0" THEN StripTrailingZeros(SubSeq(ds, 1, Len(ds) - 1)) ELSE ds

RECURSIVE PadEnd(_, _)
\* String.prototype.padEnd(n, "0")
PadEnd(ds, n) == IF Len(ds) >= n THEN ds ELSE PadEnd(ds \o <<"0">>, n)

RECURSIVE PadStart(_, _)
\* String.prototype.padStart(n, "0")
PadStart(ds, n) == IF Len(ds) >= n THEN ds ELSE PadStart(<<"0">> \o ds, n)

NaN == [nan |-> TRUE, v |-> 0]
Num(v) == [nan |-> FALSE, v |-> v]

\* parseFloat(s): the longest prefix [sign] digits [. digits] with at least
\* one digit, after leading white space; NaN when there is none.  Digits
\* beyond FracDigits are dropped.
parseFloat(text) ==
  LET s     == TrimLeft(text)
      neg   == s # <<>> /\ s[1] = "-"
      start == IF s # <<>> /\ s[1] \in {"-", "+"} THEN 2 ELSE 1
      nInt  == DigitPrefixLen(s, start)
      dot   == start + nInt
      nFrac == IF dot <= Len(s) /\ s[dot] = "." THEN DigitPrefixLen(s, dot + 1) ELSE 0
      int   == SubSeq(s, start, start + nInt - 1)
      frac  == SubSeq(PadEnd(SubSeq(s, dot + 1, dot + nFrac), FracDigits), 1, FracDigits)
      mag   == DigitsVal(int) * Pow10(FracDigits) + DigitsVal(frac)
  IN IF nInt + nFrac = 0 THEN NaN
     ELSE Num(IF neg THEN 0 - mag ELSE mag)

\* viem formatUnits(value, decimals) for value >= 0 and for value < 0
formatUnits(value, decs) ==
  LET negative == value < 0
      display  == PadStart(NatToText(IF negative THEN 0 - value ELSE value), decs)
      integer  == SubSeq(display, 1, Len(display) - decs)
      fraction == StripTrailingZeros(SubSeq(display, Len(display) - decs + 1, Len(display)))
  IN (IF negative THEN <<"-">> ELSE <<>>)
     \o (IF integer = <<>> THEN <<"0">> ELSE integer)
     \o (IF fraction = <<>> THEN <<>> ELSE <<".">> \o fraction)

\* Number(formatUnits(value, decimals)) as a number of the model
UnitsToNumber(value, decs) == Num(value * Pow10(FracDigits - decs))

\* /^(-?)([0-9]*)\.?([0-9]*)$/ .test(text)
IsDecimalText(text) ==
  LET start == IF text # <<>> /\ text[1] = "-" THEN 2 ELSE 1
      nInt  == DigitPrefixLen(text, start)
      dot   == start + nInt
      hasDot == dot <= Len(text) /\ text[dot] = "."
      nFrac == IF hasDot THEN DigitPrefixLen(text, dot + 1) ELSE 0
  IN start + nInt + (IF hasDot THEN 1 ELSE 0) + nFrac = Len(text) + 1

\* viem parseUnits(text, decimals): the value, or "throws" for a text that
\* is not a decimal number
parseUnits(text, decs) ==
  IF ~IsDecimalText(text) THEN [throws |-> TRUE, value |-> 0]
  ELSE
    LET negative == text # <<>> /\ text[1] = "-"
        start == IF negative THEN 2 ELSE 1
        nInt  == DigitPrefixLen(text, start)
        dot   == start + nInt
        integer  == DigitsVal(SubSeq(text, start, dot - 1))
        fraction == StripTrailingZeros(SubSeq(text, dot + 1, Len(text)))
        \* Math.round of the digits that do not fit: half rounds up
        roundUp  == Len(fraction) > decs /\ DigitVal(fraction[decs + 1]) >= 5
        kept     == DigitsVal(PadEnd(SubSeq(fraction, 1, IF Len(fraction) > decs
                                                          THEN decs ELSE Len(fraction)),
                                     decs))
        mag      == integer * Pow10(decs) + kept + (IF roundUp THEN 1 ELSE 0)
    IN [throws |-> FALSE, value |-> IF negative THEN 0 - mag ELSE mag]

(***************************************************************************)
(* MovePositionModal: tokens, protocols and providers                      *)
(***************************************************************************)
DebtToken == "0xD"

\* String.prototype.toLowerCase on the addresses in use
AddrLower(a) ==
  CASE a = "0xD" -> "0xd"
    [] a = "0xA" -> "0xa"
    [] a = "0xB" -> "0xb"
    [] a = "0xC" -> "0xc"
    [] OTHER -> a

\* what useCollaterals reports: one record per collateral of the source
\* protocol; the four threshold fields are the ones getLtBps looks at
Catalog ==
  << [address |-> "0xA", symbol |-> "WETH", decimals |-> 1, rawBalance |-> 30, balance |-> 30,
      liquidationThresholdBps |-> None, collateralFactorBps |-> None,
      ltBps |-> None, ltvBps |-> None],
     [address |-> "0xB", symbol |-> "USDC", decimals |-> 0, rawBalance |-> 4, balance |-> 40,
      liquidationThresholdBps |-> None, collateralFactorBps |-> None,
      ltBps |-> None, ltvBps |-> Some(5000)] >>

CatalogAddrs == {Catalog[i].address : i \in 1..Len(Catalog)}
PriceKeys    == {AddrLower(a) : a \in CatalogAddrs \cup {DebtToken}}

\* what a probe's useTokenPriceApi returns: status, and the price as a count of
\* quarters of 1e-8 USD (finite) or Infinity
Lookup(status, finite, quarters) ==
  [status |-> status, finite |-> finite, quarters |-> quarters]

\* the hook's first state
IdleLookup == Lookup("idle", TRUE, 0)

\* one probe per collateral, keyed by the lowercase address
ProbeKeys == {AddrLower(a) : a \in CatalogAddrs}
NoLookups == [k \in ProbeKeys |-> IdleLookup]

\* const protocols = [{ name: "Aave V3" }, { name: "Compound V3" }, { name: "Venus" }]
protocols == <<"Aave V3", "Compound V3", "Venus">>

\* protocols.filter(p => p.name !== fromProtocol)
availableProtocols(from) == SeqFilterIdx(protocols, Range(protocols) \ {from}, 1)

\* useState(availableProtocols[0]?.name || "")
InitialDest(from) ==
  IF Len(availableProtocols(from)) > 0 THEN availableProtocols(from)[1] ELSE ""

\* the characters of the protocol names and ids in use
ProtocolText(name) ==
  CASE name = "Aave V3"     -> <<"A","a","v","e"," ","V","3">>
    [] name = "Compound V3" -> <<"C","o","m","p","o","u","n","d"," ","V","3">>
    [] name = "Venus"       -> <<"V","e","n","u","s">>
    [] name = "aave"        -> <<"a","a","v","e">>
    [] name = "compound"    -> <<"c","o","m","p","o","u","n","d">>
    [] name = "venus"       -> <<"v","e","n","u","s">>
    [] OTHER                -> <<>>

COMPOUND == <<"c","o","m","p","o","u","n","d">>

RECURSIVE DigitSuffixLen(_)
\* number of digits at the end of s
DigitSuffixLen(s) ==
  IF s # <<>> /\ s[Len(s)] \in {"0","1","2","3","4","5","6","7","8","9"}
  THEN 1 + DigitSuffixLen(SubSeq(s, 1, Len(s) - 1))
  ELSE 0

\* .replace(/\s+v\d+$/i, "")
StripVersionSuffix(s) ==
  LET nDigits == DigitSuffixLen(s)
      vAt     == Len(s) - nDigits
  IN IF nDigits > 0 /\ vAt > 1 /\ s[vAt] \in {"v", "V"} /\ s[vAt - 1] \in WhiteSpace
     THEN TrimRight(SubSeq(s, 1, vAt - 1))
     ELSE s

\* .replace(/\s+/g, "")
RemoveWhiteSpace(s) == SeqFilterIdx(s, Range(s) \ WhiteSpace, 1)

\* toLowerCase().replace(/\s+/g, "") only
NormalizeProtocol_noVersion(name) == RemoveWhiteSpace(toLowerCase(ProtocolText(name)))

\* toLowerCase().replace(/\s+v\d+$/i, "").replace(/\s+/g, "")
NormalizeProtocol(name) ==
  RemoveWhiteSpace(StripVersionSuffix(toLowerCase(ProtocolText(name))))

ALL_FLASH_LOAN_PROVIDERS == <<"v2", "v3", "aave">>

\* the usual chain of the modal: on both white lists
ChainId == 42161
BALANCER_CHAINS == {42161, 8453, 10}
AAVE_CHAINS     == {42161, 8453, 10, 59144}

\* availableFlash: providers whose router flag is set and whose white list
\* holds the chain, in catalog order
availableFlash(flags) ==
  SeqFilterIdx(ALL_FLASH_LOAN_PROVIDERS,
               {v \in flags : /\ ~IsNone(chainId) /\ The(chainId) # 0
                              /\ IF v = "aave" THEN The(chainId) \in AAVE_CHAINS
                                 ELSE The(chainId) \in BALANCER_CHAINS}, 1)

\* the effect choosing a provider only while none is chosen
SettleFlash_keeps(flags, current) ==
  IF Len(availableFlash(flags)) = 0 THEN NULL
  ELSE IF current = NULL THEN availableFlash(flags)[1]
  ELSE current

\* the effect that keeps flashProvider inside availableFlash
SettleFlash(flags, current) ==
  IF Len(availableFlash(flags)) = 0 THEN NULL
  ELSE IF current = NULL \/ current \notin Range(availableFlash(flags))
       THEN availableFlash(flags)[1]
  ELSE current

\* collatsForSelector: the catalog with the destination's support flag
collatsForSelector(fetched, support) ==
  [i \in 1..Len(fetched) |->
     [address |-> fetched[i].address, symbol |-> fetched[i].symbol,
      decimals |-> fetched[i].decimals, rawBalance |-> fetched[i].rawBalance,
      balance |-> fetched[i].balance,
      liquidationThresholdBps |-> fetched[i].liquidationThresholdBps,
      collateralFactorBps |-> fetched[i].collateralFactorBps,
      ltBps |-> fetched[i].ltBps, ltvBps |-> fetched[i].ltvBps,
      supported |-> fetched[i].address \in support]]

(***************************************************************************)
(* MovePositionModal: USD values and health factor                         *)
(* USD values are numbers whose unit is one price unit per 10^-FracDigits  *)
(* token; a health factor is a record [kind, n, d] standing for n / d.     *)
(***************************************************************************)
NumMul(a, b) == IF a.nan \/ b.nan THEN NaN ELSE Num(a.v * b.v)
NumSub(a, b) == IF a.nan \/ b.nan THEN NaN ELSE Num(a.v - b.v)
NumAbs(a)    == IF a.nan THEN NaN ELSE Num(IF a.v < 0 THEN 0 - a.v ELSE a.v)

\* Number(formatUnits(p8, 8)), in price units
PriceNumber(p8) == [nan |-> FALSE, v |-> p8]

\* tokenToPrices[addr] ?? 0n
PriceOr0(prices, key) == IF IsNone(prices[key]) THEN 0 ELSE The(prices[key])

\* const debtPrice = tokenToPrices[position.tokenAddress.toLowerCase()] ?? 0n
debtPrice(pos, prices) == PriceOr0(prices, AddrLower(pos.tokenAddress))

\* amount || "0"
TextOr0(text) == IF text = <<>> THEN <<"0">> ELSE text

debtUsd(text, pos, prices) ==
  NumMul(parseFloat(TextOr0(text)), PriceNumber(debtPrice(pos, prices)))

\* p ? normalized * Number(formatUnits(p, 8)) : 0
UsdOrZero(value, decs, prices, key) ==
  IF PriceOr0(prices, key) = 0 THEN 0
  ELSE UnitsToNumber(value, decs).v * PriceOr0(prices, key)

RECURSIVE SumSeq(_)
SumSeq(xs) == IF xs = <<>> THEN 0 ELSE Head(xs) + SumSeq(Tail(xs))

collatsUsd(sel, prices) ==
  SumSeq([i \in 1..Len(sel) |->
            UsdOrZero(sel[i].amount, sel[i].decimals, prices, AddrLower(sel[i].token))])

\* selectedCollats.find(sc => sc.token === c.address): its amount, or 0
SelectedAmount(sel, address) ==
  IF \E i \in 1..Len(sel) : sel[i].token = address
  THEN sel[CHOOSE i \in 1..Len(sel) :
             sel[i].token = address /\ \A j \in 1..(i - 1) : sel[j].token # address].amount
  ELSE 0

remainingCollateralUsd(all, sel, prices) ==
  SumSeq([i \in 1..Len(all) |->
            UsdOrZero(all[i].rawBalance - SelectedAmount(sel, all[i].address),
                      all[i].decimals, prices, AddrLower(all[i].address))])

remainingDebtUsd(text, pos, prices) ==
  NumMul(NumSub(NumAbs(Num(pos.balance)), parseFloat(TextOr0(text))),
         PriceNumber(debtPrice(pos, prices)))

currentDebtUsd(pos, prices) ==
  NumMul(NumAbs(Num(pos.balance)), PriceNumber(debtPrice(pos, prices)))

LT_DEFAULT_BPS == 8273

\* getLtBps that gives every asset the default threshold
getLtBps_default(c) == LT_DEFAULT_BPS

\* getLtBps: the first threshold field present, else 8273, clamped to 0..10000
getLtBps(c) ==
  LET bps == IF ~IsNone(c.liquidationThresholdBps) THEN The(c.liquidationThresholdBps)
             ELSE IF ~IsNone(c.collateralFactorBps) THEN The(c.collateralFactorBps)
             ELSE IF ~IsNone(c.ltBps) THEN The(c.ltBps)
             ELSE IF ~IsNone(c.ltvBps) THEN The(c.ltvBps)
             ELSE LT_DEFAULT_BPS
  IN IF bps < 0 THEN 0 ELSE IF bps > 10000 THEN 10000 ELSE bps

\* movedByAddr.get(addr) ?? 0n: the moved amounts summed per lower-cased address
MovedByAddr(moved, key) ==
  SumSeq([i \in 1..Len(moved) |->
            IF AddrLower(moved[i].token) = key THEN moved[i].amount ELSE 0])

\* weightedCollUsd of computeHF, times 10000 (thresholds stay in basis points)
WeightedCollUsd(all, moved, prices) ==
  SumSeq([i \in 1..Len(all) |->
            LET key       == AddrLower(all[i].address)
                remaining == all[i].rawBalance - MovedByAddr(moved, key)
            IN IF getLtBps(all[i]) <= 0 \/ remaining <= 0 \/ PriceOr0(prices, key) = 0
               THEN 0
               ELSE UnitsToNumber(remaining, all[i].decimals).v * PriceOr0(prices, key)
                      * getLtBps(all[i])])

HF_SENTINEL == 999

Sentinel == [kind |-> "num", n |-> HF_SENTINEL, d |-> 1]

\* JavaScript n / d on numbers
Divide(n, d) ==
  IF d = 0 THEN [kind |-> IF n = 0 THEN "nan" ELSE "inf", n |-> n, d |-> d]
  ELSE [kind |-> "num", n |-> n, d |-> d]

\* computeHF with a guard that only catches a zero debt value
computeHF_zeroOnly(all, moved, prices, totalDebtUsd) ==
  IF ~totalDebtUsd.nan /\ totalDebtUsd.v = 0 THEN Sentinel
  ELSE IF totalDebtUsd.nan THEN [kind |-> "nan", n |-> 0, d |-> 0]
  ELSE Divide(WeightedCollUsd(all, moved, prices), 10000 * totalDebtUsd.v)

\* computeHF(all, moved, tokenToPrices, totalDebtUsd)
computeHF(all, moved, prices, totalDebtUsd) ==
  IF totalDebtUsd.nan \/ totalDebtUsd.v <= 0 THEN Sentinel
  ELSE Divide(WeightedCollUsd(all, moved, prices), 10000 * totalDebtUsd.v)

currentHF(all, pos, prices) == computeHF(all, <<>>, prices, currentDebtUsd(pos, prices))

projectedHF(all, sel, text, pos, prices) ==
  computeHF(all, sel, prices, remainingDebtUsd(text, pos, prices))

\* the earlier variant of the modal: unweighted ratio, 999 when either side is 0
currentHF_v1(all, pos, prices) ==
  LET totalColl == remainingCollateralUsd(all, <<>>, prices)
      totalDebt == currentDebtUsd(pos, prices)
  IN IF (~totalDebt.nan /\ totalDebt.v = 0) \/ totalColl = 0 THEN Sentinel
     ELSE IF totalDebt.nan THEN [kind |-> "nan", n |-> 0, d |-> 0]
     ELSE Divide(totalColl, totalDebt.v)

\* the earlier variant: (remainingCollateralUsd * 0.85) / remainingDebtUsd
projectedHF_v1(all, sel, text, pos, prices) ==
  LET coll == remainingCollateralUsd(all, sel, prices)
      debt == remainingDebtUsd(text, pos, prices)
  IN IF (~debt.nan /\ debt.v = 0) \/ coll = 0 THEN Sentinel
     ELSE IF debt.nan THEN [kind |-> "nan", n |-> 0, d |-> 0]
     ELSE Divide(coll * 85, 100 * debt.v)

\* hf < bound, for bound = bn / bd; false for NaN, as in JavaScript
HFLess(hf, bn, bd) ==
  CASE hf.kind = "nan" -> FALSE
    [] hf.kind = "inf" -> hf.n < 0
    [] hf.d > 0 -> hf.n * bd < bn * hf.d
    [] OTHER    -> hf.n * bd > bn * hf.d

(***************************************************************************)
(* MovePositionModal: validation                                           *)
(***************************************************************************)
\* HF_DANGER = 1.1 as HF_DANGER_NUM / HF_DANGER_DEN
HF_DANGER_NUM == 11
HF_DANGER_DEN == 10

\* the factor 1.2 of the coverage check as COVER_NUM / COVER_DEN
COVER_NUM == 12
COVER_DEN == 10

Issue(kind, symbol) == [kind |-> kind, symbol |-> symbol]

\* collatsUsd < debtUsd * 1.2 (false when debtUsd is NaN)
CoverageShort(sel, text, pos, prices) ==
  /\ ~debtUsd(text, pos, prices).nan
  /\ collatsUsd(sel, prices) * COVER_DEN < debtUsd(text, pos, prices).v * COVER_NUM

RECURSIVE CollateralIssues(_)
\* selectedCollats.forEach(...): unsupported and zero-amount entries
CollateralIssues(sel) ==
  IF sel = <<>> THEN <<>>
  ELSE (IF ~Head(sel).supported THEN <<Issue("unsupported", Head(sel).symbol)>> ELSE <<>>)
       \o (IF Head(sel).amount = 0 THEN <<Issue("zero_amount", Head(sel).symbol)>> ELSE <<>>)
       \o CollateralIssues(Tail(sel))

\* !amount || parseFloat(amount) === 0
NoDebtAmount(text) ==
  text = <<>> \/ (~parseFloat(text).nan /\ parseFloat(text).v = 0)

\* the issues list of one render
issues(pos, all, sel, text, prices) ==
  (IF pos.type = "borrow"
   THEN (IF Len(sel) = 0 THEN <<Issue("select_collateral", "")>> ELSE <<>>)
        \o (IF HFLess(projectedHF(all, sel, text, pos, prices), HF_DANGER_NUM, HF_DANGER_DEN)
            THEN <<Issue("health_factor", "")>> ELSE <<>>)
        \o (IF CoverageShort(sel, text, pos, prices)
            THEN <<Issue("coverage", "")>> ELSE <<>>)
        \o CollateralIssues(sel)
   ELSE <<>>)
  \o (IF NoDebtAmount(text) THEN <<Issue("enter_debt_amount", "")>> ELSE <<>>)

\* the issues of the current state
Issues ==
  issues(position, collatsForSelector(fetchedCollats, supportedCollaterals),
         selectedCollats, amount, tokenToPrices)

\* const canConfirm = issues.length === 0 && !loading
canConfirm == Len(Issues) = 0 /\ ~loading

(***************************************************************************)
(* CollateralSelector: operations on the selection                         *)
(***************************************************************************)
\* the entry handleCollateralToggle appends
NewEntry(c) ==
  [token |-> c.address, amount |-> 0, symbol |-> c.symbol, decimals |-> c.decimals,
   maxAmount |-> c.rawBalance, inputValue |-> None, supported |-> c.supported]

\* handleCollateralToggle without its early return
ToggleSelection_noGuard(prev, c) ==
  IF \E i \in 1..Len(prev) : prev[i].token = c.address
  THEN SeqFilterIdx(prev, {e \in Range(prev) : e.token # c.address}, 1)
  ELSE Append(prev, NewEntry(c))

\* the selection handleCollateralToggle leaves: its early return, then the
\* state update
ToggleSelection(prev, c) ==
  IF ~c.supported \/ c.rawBalance <= 0 THEN prev
  ELSE IF \E i \in 1..Len(prev) : prev[i].token = c.address
  THEN SeqFilterIdx(prev, {e \in Range(prev) : e.token # c.address}, 1)
  ELSE Append(prev, NewEntry(c))

\* handleAmountChange whose catch keeps the amount the entry had
AmountEntry_catchKeeps(e, text, decs) ==
  IF text = <<>> \/ text = <<".">>
  THEN [e EXCEPT !.amount = 0, !.inputValue = Some(text)]
  ELSE IF parseUnits(text, decs).throws
  THEN [e EXCEPT !.inputValue = Some(text)]
  ELSE IF parseUnits(text, decs).value > e.maxAmount
  THEN [e EXCEPT !.amount = e.maxAmount, !.inputValue = Some(formatUnits(e.maxAmount, decs))]
  ELSE [e EXCEPT !.amount = parseUnits(text, decs).value, !.inputValue = Some(text)]

\* the entry written by CollateralSelector.handleAmountChange for its token
AmountEntry(e, text, decs) ==
  IF text = <<>> \/ text = <<".">>
  THEN [e EXCEPT !.amount = 0, !.inputValue = Some(text)]
  ELSE IF parseUnits(text, decs).throws
  THEN [e EXCEPT !.amount = 0, !.inputValue = Some(text)]
  ELSE IF parseUnits(text, decs).value > e.maxAmount
  THEN [e EXCEPT !.amount = e.maxAmount, !.inputValue = Some(formatUnits(e.maxAmount, decs))]
  ELSE [e EXCEPT !.amount = parseUnits(text, decs).value, !.inputValue = Some(text)]

\* prev.map(...) of CollateralSelector.handleAmountChange
ChangeAmount(prev, token, text, decs) ==
  [i \in 1..Len(prev) |->
     IF prev[i].token = token THEN AmountEntry(prev[i], text, decs) ELSE prev[i]]

\* handleSetMax that leaves the typed text in place
SetMax_keepsText(prev, token) ==
  [i \in 1..Len(prev) |->
     IF prev[i].token = token
     THEN [prev[i] EXCEPT !.amount = prev[i].maxAmount]
     ELSE prev[i]]

\* the list built by CollateralSelector.handleSetMax
SetMax(prev, token) ==
  [i \in 1..Len(prev) |->
     IF prev[i].token = token
     THEN [prev[i] EXCEPT !.amount = prev[i].maxAmount,
                          !.inputValue = Some(formatUnits(prev[i].maxAmount, prev[i].decimals))]
     ELSE prev[i]]

\* the effect on [collateralSupportMap, selectedProtocol]: refresh the flags
SyncSupport(prev, all, dest) ==
  IF dest = "" THEN prev
  ELSE [i \in 1..Len(prev) |->
          [prev[i] EXCEPT !.supported =
             \E k \in 1..Len(all) : all[k].address = prev[i].token /\ all[k].supported]]

\* availableCollaterals before sorting: supported with a positive balance
IsAvailable(c) == c.supported /\ c.rawBalance > 0

\* the unsupported filter: !c.supported || c.rawBalance === 0n
IsUnsupported(c) == ~c.supported \/ c.rawBalance = 0

\* a.symbol.localeCompare(b.symbol) < 0 on the symbols in use
SymbolOrder == <<"USDC", "WETH">>
SymbolBefore(a, b) ==
  \E i, j \in 1..Len(SymbolOrder) : SymbolOrder[i] = a /\ SymbolOrder[j] = b /\ i < j

\* the comparator with the balances compared the other way round
CollateralBefore_ascending(a, b) ==
  \/ a.balance < b.balance
  \/ a.balance = b.balance /\ SymbolBefore(a.symbol, b.symbol)

\* the sort comparator returns a negative number: a goes before b
CollateralBefore(a, b) ==
  \/ a.balance > b.balance
  \/ a.balance = b.balance /\ SymbolBefore(a.symbol, b.symbol)

\* [...list].sort(comparator): a stable sort
SortCollaterals(list) ==
  LET rank(i) == Cardinality({j \in 1..Len(list) :
                     \/ CollateralBefore(list[j], list[i])
                     \/ ~CollateralBefore(list[i], list[j]) /\ j < i}) + 1
  IN [k \in 1..Len(list) |-> list[CHOOSE i \in 1..Len(list) : rank(i) = k]]

\* availableCollaterals: the supported collaterals with a balance, sorted
availableCollaterals(all) ==
  SortCollaterals(SeqFilterIdx(all, {c \in Range(all) : IsAvailable(c)}, 1))

\* unsupportedCount
unsupportedCount(all) ==
  Len(SeqFilterIdx(all, {c \in Range(all) : IsUnsupported(c)}, 1))

\* displayCollaterals
displayCollaterals(all, showAll) == IF showAll THEN all ELSE availableCollaterals(all)

\* displayCollaterals as a set of addresses
Displayed(all, showAll) ==
  {all[i].address : i \in {k \in 1..Len(all) : showAll \/ IsAvailable(all[k])}}

(***************************************************************************)
(* CollateralAmounts: operations on the collaterals prop                   *)
(***************************************************************************)
\* the entry written by CollateralAmounts.handleAmountChange for its token
CaAmountEntry(e, text, decs) ==
  IF parseUnits(TextOr0(text), decs).throws
  THEN [e EXCEPT !.amount = 0, !.inputValue = Some(text)]
  ELSE [e EXCEPT !.amount = parseUnits(TextOr0(text), decs).value, !.inputValue = Some(text)]

CaChangeAmount(list, token, text, decs) ==
  [i \in 1..Len(list) |->
     IF list[i].token = token THEN CaAmountEntry(list[i], text, decs) ELSE list[i]]

CaSetMax(list, token, maxAmount, decs) ==
  [i \in 1..Len(list) |->
     IF list[i].token = token
     THEN [list[i] EXCEPT !.amount = maxAmount, !.inputValue = Some(formatUnits(maxAmount, decs))]
     ELSE list[i]]

CaRemove(list, token) == SeqFilterIdx(list, {e \in Range(list) : e.token # token}, 1)

(***************************************************************************)
(* MovePositionModal: handleConfirm                                        *)
(* confirmCalls is the trace of calls on the move builder and the executor *)
(* made by the handleConfirm that ran in the step leading to the state; it *)
(* is empty after any other step.                                          *)
(***************************************************************************)
Call(op, token, text, flag) == [op |-> op, token |-> token, text |-> text, flag |-> flag]

\* !decimals
NoDecimals(d) == IsNone(d) \/ The(d) = 0

\* (decimals as number) || position.decimals
DecimalsOr(d, pos) == IF NoDecimals(d) THEN pos.decimals ELSE The(d)

\* !tokenBalance || tokenBalance === 0n
NoTokenBalance(b) == IsNone(b) \/ The(b) = 0

\* const debtStr = isMaxDebt ? formatUnits(tokenBalance || 0n, decimals || position.decimals) : amount
DebtStr(isMax, b, d, pos, text) ==
  IF isMax THEN formatUnits(IF NoTokenBalance(b) THEN 0 ELSE The(b), DecimalsOr(d, pos))
  ELSE text

\* !debtStr || isNaN(n) || n <= 0
InvalidDebt(debtStr) ==
  \/ debtStr = <<>>
  \/ parseFloat(TextOr0(debtStr)).nan
  \/ parseFloat(TextOr0(debtStr)).v <= 0

\* one buildMoveCollateral call
MoveCollateralCall(c) ==
  IF c.amount = c.maxAmount
  THEN Call("buildMoveCollateral", c.token, <<>>, "max")
  ELSE Call("buildMoveCollateral", c.token, formatUnits(c.amount, c.decimals), "amount")

\* the builder calls with the borrow placed before the collateral moves
PlanCalls_borrowFirst(sel, debtStr, pos, flash, dest) ==
  <<Call("buildUnlockDebt", pos.tokenAddress, debtStr, flash)>>
  \o <<Call("buildBorrow", pos.tokenAddress, <<>>, dest)>>
  \o [i \in 1..Len(sel) |-> MoveCollateralCall(sel[i])]

\* lines 505-531: buildUnlockDebt, buildMoveCollateral per entry, buildBorrow
PlanCalls(sel, debtStr, pos, flash, dest) ==
  <<Call("buildUnlockDebt", pos.tokenAddress, debtStr, flash)>>
  \o [i \in 1..Len(sel) |-> MoveCollateralCall(sel[i])]
  \o <<Call("buildBorrow", pos.tokenAddress, <<>>, dest)>>

\* the market is set for a compound destination only
BuilderSetup_destOnly(pos, from, dest) ==
  <<Call("createMoveBuilder", "", <<>>, "")>>
  \o (IF NormalizeProtocol(dest) = COMPOUND
      THEN <<Call("setCompoundMarket", pos.tokenAddress, <<>>, "")>>
      ELSE <<>>)

\* lines 491-496: createMoveBuilder and the optional setCompoundMarket
BuilderSetup(pos, from, dest) ==
  <<Call("createMoveBuilder", "", <<>>, "")>>
  \o (IF NormalizeProtocol(dest) = COMPOUND \/ NormalizeProtocol(from) = COMPOUND
      THEN <<Call("setCompoundMarket", pos.tokenAddress, <<>>, "")>>
      ELSE <<>>)

Thrown(message, calls) == [error |-> message, calls |-> calls]

\* the first failing precondition of lines 485-489 with the supply check
\* ahead of the wallet, decimals and destination checks
Precondition_supplyFirst(pos, user, d, dest, flash) ==
  IF pos.type = "supply" THEN "Supply move not implemented yet."
  ELSE IF user = NULL THEN "Connect your wallet."
  ELSE IF NoDecimals(d) THEN "Token decimals not loaded."
  ELSE IF dest = "" THEN "Select destination protocol."
  ELSE IF flash = NULL THEN "No flash loan provider available."
  ELSE NULL

\* the first failing precondition of lines 485-489, or NULL
Precondition(pos, user, d, dest, flash) ==
  IF user = NULL THEN "Connect your wallet."
  ELSE IF NoDecimals(d) THEN "Token decimals not loaded."
  ELSE IF dest = "" THEN "Select destination protocol."
  ELSE IF pos.type = "supply" THEN "Supply move not implemented yet."
  ELSE IF flash = NULL THEN "No flash loan provider available."
  ELSE NULL

\* handleConfirm creating the builder before it checks its preconditions
ConfirmRun_setupFirst ==
  LET pre == Precondition(position, userAddress, decimals, destProtocol, flashProvider)
      setup == BuilderSetup(position, fromProtocol, destProtocol)
      debtStr == DebtStr(isMaxDebt, tokenBalance, decimals, position, amount)
  IN IF pre # NULL THEN Thrown(pre, setup)
     ELSE IF InvalidDebt(debtStr) THEN Thrown("Invalid debt amount.", setup)
     ELSE IF isMaxDebt /\ NoTokenBalance(tokenBalance) THEN Thrown("No outstanding debt.", setup)
     ELSE Thrown(NULL, setup
                       \o PlanCalls(selectedCollats, debtStr, position, flashProvider, destProtocol)
                       \o <<Call("build", "", <<>>, "")>>
                       \o <<Call("executeFlowBatchedIfPossible", "", <<>>, "")>>)

\* the synchronous part of handleConfirm: the error thrown (NULL when the
\* executor is reached) and the calls made
ConfirmRun ==
  LET pre == Precondition(position, userAddress, decimals, destProtocol, flashProvider)
      setup == BuilderSetup(position, fromProtocol, destProtocol)
      debtStr == DebtStr(isMaxDebt, tokenBalance, decimals, position, amount)
  IN IF pre # NULL THEN Thrown(pre, <<>>)
     ELSE IF InvalidDebt(debtStr) THEN Thrown("Invalid debt amount.", setup)
     ELSE IF isMaxDebt /\ NoTokenBalance(tokenBalance) THEN Thrown("No outstanding debt.", setup)
     ELSE Thrown(NULL, setup
                       \o PlanCalls(selectedCollats, debtStr, position, flashProvider, destProtocol)
                       \o <<Call("build", "", <<>>, "")>>
                       \o <<Call("executeFlowBatchedIfPossible", "", <<>>, "")>>)

(***************************************************************************)
(* MovePositionModal: actions                                              *)
(***************************************************************************)
AllCollats == collatsForSelector(fetchedCollats, supportedCollaterals)

\* lines 542, 716 and 730: the CollateralSelector is mounted
SelectorMounted == isOpen /\ position.type = "borrow" /\ collateralOpen

\* the selector is rendered and shows its list
SelectorShown ==
  /\ SelectorMounted
  /\ \E i \in 1..Len(AllCollats) : IsAvailable(AllCollats[i])

\* the selection changes inside the selector and is reported to the modal
SelectionBecomes(sel) ==
  /\ selectedCollaterals' = sel
  /\ selectedCollats' = sel

\* the effect on [collateralSupportMap, selectedProtocol] of a mounted selector,
\* for a modal whose destination is dest and whose catalog is all
SupportEffect(all, dest) ==
  IF isOpen /\ position.type = "borrow" /\ collateralOpen
  THEN SelectionBecomes(SyncSupport(selectedCollaterals, all, dest))
  ELSE UNCHANGED <<selectedCollats, selectedCollaterals>>

\* a destination chip is clicked
SetDestProtocol(p) ==
  /\ isOpen
  /\ p \in Range(availableProtocols(fromProtocol))
  /\ destProtocol' = p
  /\ SupportEffect(AllCollats, p)
  /\ confirmCalls' = <<>>
  /\ UNCHANGED <<apiVars, propVars, collateralOpen, probes, readVars, runVars, sideVars, showUnsupported,
                 flashProvider, tokenToPrices, amount, isMaxDebt>>

\* the debt amount input changes
SetAmount(text) ==
  /\ isOpen /\ ~loading
  /\ amount' = text
  /\ isMaxDebt' = FALSE
  /\ confirmCalls' = <<>>
  /\ UNCHANGED <<apiVars, propVars, collateralOpen, probes, readVars, runVars, selVars, sideVars,
                 destProtocol, flashProvider, tokenToPrices>>

\* the MAX button of the debt amount
MaxDebt ==
  /\ isOpen /\ ~loading
  /\ amount' = IF ~NoTokenBalance(tokenBalance) /\ ~NoDecimals(decimals)
               THEN formatUnits(The(tokenBalance), DecimalsOr(decimals, position))
               ELSE formatUnits(NumAbs(Num(position.balance)).v, FracDigits)
  /\ isMaxDebt' = TRUE
  /\ confirmCalls' = <<>>
  /\ UNCHANGED <<apiVars, propVars, collateralOpen, probes, readVars, runVars, selVars, sideVars,
                 destProtocol, flashProvider, tokenToPrices>>

\* a provider is picked in the flash loan dropdown
SelectFlash(fp) ==
  /\ isOpen
  /\ position.type = "borrow"
  /\ fp \in Range(availableFlash(flashFlags))
  /\ flashProvider' = fp
  /\ confirmCalls' = <<>>
  /\ UNCHANGED <<apiVars, propVars, collateralOpen, probes, readVars, runVars, selVars, sideVars,
                 destProtocol, tokenToPrices, amount, isMaxDebt>>

\* handleCollateralToggle on a row of the list
handleCollateralToggle(i) ==
  /\ SelectorShown
  /\ i \in 1..Len(AllCollats)
  /\ AllCollats[i].address \in Displayed(AllCollats, showUnsupported)
  /\ SelectionBecomes(ToggleSelection(selectedCollaterals, AllCollats[i]))
  /\ confirmCalls' = <<>>
  /\ UNCHANGED <<apiVars, propVars, collateralOpen, probes, readVars, formVars, runVars, sideVars, showUnsupported>>

\* the amount input of a selected row is enabled
AmountRowEnabled(i) ==
  /\ SelectorShown
  /\ i \in 1..Len(AllCollats)
  /\ AllCollats[i].address \in Displayed(AllCollats, showUnsupported)
  /\ \E k \in 1..Len(selectedCollaterals) :
       selectedCollaterals[k].token = AllCollats[i].address /\ selectedCollaterals[k].supported

\* CollateralSelector.handleAmountChange from the input of row i
SelectorAmountChange(i, text) ==
  /\ AmountRowEnabled(i)
  /\ SelectionBecomes(ChangeAmount(selectedCollaterals, AllCollats[i].address, text,
                                   AllCollats[i].decimals))
  /\ confirmCalls' = <<>>
  /\ UNCHANGED <<apiVars, propVars, collateralOpen, probes, readVars, formVars, runVars, sideVars, showUnsupported>>

\* CollateralSelector.handleSetMax from the MAX button of row i
SelectorSetMax(i) ==
  /\ AmountRowEnabled(i)
  /\ SelectionBecomes(SetMax(selectedCollaterals, AllCollats[i].address))
  /\ confirmCalls' = <<>>
  /\ UNCHANGED <<apiVars, propVars, collateralOpen, probes, readVars, formVars, runVars, sideVars, showUnsupported>>

\* the "show unsupported" button dropping the selection
ToggleShowUnsupported_clears ==
  /\ SelectorShown
  /\ \E i \in 1..Len(AllCollats) : ~IsAvailable(AllCollats[i])
  /\ showUnsupported' = ~showUnsupported
  /\ SelectionBecomes(<<>>)
  /\ confirmCalls' = <<>>
  /\ UNCHANGED <<apiVars, propVars, collateralOpen, probes, readVars, formVars, runVars, sideVars>>

\* the "show unsupported" button
ToggleShowUnsupported ==
  /\ SelectorShown
  /\ \E i \in 1..Len(AllCollats) : ~IsAvailable(AllCollats[i])
  /\ showUnsupported' = ~showUnsupported
  /\ confirmCalls' = <<>>
  /\ UNCHANGED <<apiVars, propVars, collateralOpen, probes, readVars, formVars, runVars, sideVars,
                 selectedCollats, selectedCollaterals>>

\* the Confirm button: handleConfirm up to its throw or its await
handleConfirm ==
  /\ isOpen
  /\ canConfirm
  /\ confirmCalls' = ConfirmRun.calls
  /\ err' = ConfirmRun.error
  /\ loading' = (ConfirmRun.error = NULL)
  /\ UNCHANGED <<apiVars, propVars, collateralOpen, probes, readVars, formVars, selVars, sideVars, isOpen>>

\* executeFlowBatchedIfPossible resolves: onClose(), then finally
ExecutorResolves ==
  /\ loading
  /\ isOpen' = FALSE
  /\ loading' = FALSE
  /\ confirmCalls' = <<>>
  /\ UNCHANGED <<apiVars, propVars, collateralOpen, probes, readVars, formVars, selVars, sideVars, err>>

ExecutorErrors == {"User rejected the request.", ""}

\* the catch block showing e.message as it is, without the fallback text
ExecutorRejects_rawMessage(message) ==
  /\ loading
  /\ err' = message
  /\ loading' = FALSE
  /\ confirmCalls' = <<>>
  /\ UNCHANGED <<apiVars, propVars, collateralOpen, probes, readVars, formVars, selVars, sideVars, isOpen>>

\* executeFlowBatchedIfPossible rejects: catch, then finally
ExecutorRejects(message) ==
  /\ loading
  /\ err' = IF message = "" THEN "Move failed." ELSE message
  /\ loading' = FALSE
  /\ confirmCalls' = <<>>
  /\ UNCHANGED <<apiVars, propVars, collateralOpen, probes, readVars, formVars, selVars, sideVars, isOpen>>

\* the close button or the backdrop
CloseModal ==
  /\ isOpen /\ ~loading
  /\ isOpen' = FALSE
  /\ confirmCalls' = <<>>
  /\ UNCHANGED <<apiVars, propVars, collateralOpen, probes, readVars, formVars, selVars, sideVars,
                 loading, err>>

\* a CollateralSelector mounts: its state starts empty and its effect on
\* [selectedCollaterals, onCollateralSelectionChange] reports the empty selection
SelectorMounts ==
  /\ SelectionBecomes(<<>>)
  /\ showUnsupported' = FALSE

\* the parent opens the modal again: the component kept its state while it
\* rendered null, the selector inside it is a new instance
OpenModal ==
  /\ ~isOpen
  /\ isOpen' = TRUE
  /\ IF position.type = "borrow" /\ collateralOpen THEN SelectorMounts ELSE UNCHANGED selVars
  /\ probes' = NoLookups
  /\ confirmCalls' = <<>>
  /\ UNCHANGED <<apiVars, propVars, collateralOpen, readVars, formVars, sideVars,
                 loading, err>>

\* the "Collateral to Move" header is clicked: setCollateralOpen(o => !o); the
\* selector is unmounted on collapse and a new one is mounted on expand
ToggleCollateralOpen ==
  /\ isOpen /\ position.type = "borrow"
  /\ collateralOpen' = ~collateralOpen
  /\ IF ~collateralOpen THEN SelectorMounts ELSE UNCHANGED selVars
  /\ confirmCalls' = <<>>
  /\ UNCHANGED <<apiVars, propVars, probes, readVars, formVars, runVars, sideVars>>

(***************************************************************************)
(* MovePositionModal: reads and props that change under the modal          *)
(***************************************************************************)
\* useAccount reports another address
WalletChanges(addr) ==
  /\ userAddress # addr
  /\ userAddress' = addr
  /\ confirmCalls' = <<>>
  /\ UNCHANGED <<apiVars, propVars, collateralOpen, probes, formVars, runVars, selVars, sideVars, decimals,
                 tokenBalance, flashFlags, fetchedCollats, supportedCollaterals>>

\* the ERC20 decimals read resolves
DecimalsRead(d) ==
  /\ isOpen
  /\ decimals # d
  /\ decimals' = d
  /\ confirmCalls' = <<>>
  /\ UNCHANGED <<apiVars, propVars, collateralOpen, probes, formVars, runVars, selVars, sideVars, userAddress,
                 tokenBalance, flashFlags, fetchedCollats, supportedCollaterals>>

\* the getBorrowBalance read resolves
TokenBalanceRead(b) ==
  /\ isOpen
  /\ tokenBalance # b
  /\ tokenBalance' = b
  /\ confirmCalls' = <<>>
  /\ UNCHANGED <<apiVars, propVars, collateralOpen, probes, formVars, runVars, selVars, sideVars, userAddress,
                 decimals, flashFlags, fetchedCollats, supportedCollaterals>>

\* the router flags resolve; the effect settles flashProvider
FlashFlagsRead(flags) ==
  /\ isOpen
  /\ flashFlags # flags
  /\ flashFlags' = flags
  /\ flashProvider' = SettleFlash(flags, flashProvider)
  /\ confirmCalls' = <<>>
  /\ UNCHANGED <<apiVars, propVars, collateralOpen, probes, runVars, selVars, sideVars, userAddress, decimals,
                 tokenBalance, fetchedCollats, supportedCollaterals,
                 destProtocol, tokenToPrices, amount, isMaxDebt>>

\* useCollateralSupport reports another set of supported collaterals; the
\* selector's effect refreshes the flags of the selection
SupportRead(support) ==
  /\ isOpen
  /\ supportedCollaterals # support
  /\ supportedCollaterals' = support
  /\ SupportEffect(collatsForSelector(fetchedCollats, support), destProtocol)
  /\ confirmCalls' = <<>>
  /\ UNCHANGED <<apiVars, propVars, collateralOpen, probes, formVars, runVars, sideVars, showUnsupported, userAddress,
                 decimals, tokenBalance, flashFlags, fetchedCollats>>

\* useCollaterals reports the catalog with other balances; collateralSupportMap
\* is rebuilt and the selector's effect refreshes the flags of the selection
CollateralsRead(cat) ==
  /\ isOpen
  /\ fetchedCollats # cat
  /\ fetchedCollats' = cat
  /\ SupportEffect(collatsForSelector(cat, supportedCollaterals), destProtocol)
  /\ confirmCalls' = <<>>
  /\ UNCHANGED <<apiVars, propVars, collateralOpen, probes, formVars, runVars, sideVars, showUnsupported, userAddress,
                 decimals, tokenBalance, flashFlags, supportedCollaterals>>

\* Math.round(priceNum * 1e8): halves round up
Price8(quarters) == (2 * quarters + 4) \div 8

\* isSuccess && typeof priceNum === "number" && isFinite(priceNum) && priceNum > 0
ProbeOk(r) == r.status = "success" /\ r.finite /\ r.quarters > 0

\* the onPrice callback without its guard
OnPrice_noGuard(prices, a, p8) == [prices EXCEPT ![a] = Some(p8)]

\* the onPrice callback of lines 277-283 on the price map
OnPrice(prices, a, p8) ==
  IF p8 <= 0 THEN prices
  ELSE IF prices[a] = Some(p8) THEN prices
  ELSE [prices EXCEPT ![a] = Some(p8)]

\* the effect of CollatPriceProbe for the lookup r of the collateral keyed a
ProbeEffect(prices, a, r) ==
  IF ProbeOk(r) THEN OnPrice(prices, a, Price8(r.quarters)) ELSE prices

\* the price hook of the probe of collateral key settles in another state and
\* the probe's effect runs
ProbeLookup(key, r) ==
  /\ isOpen
  /\ \E i \in 1..Len(AllCollats) : AddrLower(AllCollats[i].address) = key
  /\ probes[key] # r
  /\ probes' = [probes EXCEPT ![key] = r]
  /\ tokenToPrices' = ProbeEffect(tokenToPrices, key, r)
  /\ confirmCalls' = <<>>
  /\ UNCHANGED <<apiVars, propVars, collateralOpen, readVars, runVars, selVars, sideVars,
                 destProtocol, flashProvider, amount, isMaxDebt>>

\* onPrice of a collateral price probe
onPrice(key, p8) ==
  /\ isOpen
  /\ ~IsNone(p8) /\ The(p8) > 0
  /\ tokenToPrices[key] # p8
  /\ tokenToPrices' = [tokenToPrices EXCEPT ![key] = p8]
  /\ confirmCalls' = <<>>
  /\ UNCHANGED <<apiVars, propVars, collateralOpen, probes, readVars, runVars, selVars, sideVars,
                 destProtocol, flashProvider, amount, isMaxDebt>>

\* the position prop arrives with another tokenPrice; the effect copies a
\* present price into the map
TokenPriceProp(p8) ==
  /\ position.tokenPrice # p8
  /\ position' = [position EXCEPT !.tokenPrice = p8]
  /\ tokenToPrices' = IF ~IsNone(p8) /\ The(p8) # 0
                      THEN [tokenToPrices EXCEPT ![AddrLower(position.tokenAddress)] = p8]
                      ELSE tokenToPrices
  /\ confirmCalls' = <<>>
  /\ UNCHANGED <<apiVars, fromProtocol, chainId, collateralOpen, probes, readVars, runVars,
                 selVars, sideVars, destProtocol, flashProvider, amount, isMaxDebt>>

(***************************************************************************)
(* useTokenPriceApi                                                        *)
(* A request is [symbol, phase, aborted, ok]: phase "fetch" while fetch is *)
(* awaited, "json" while res.json() is awaited, "done" once refetch has    *)
(* returned; aborted tells that its controller was aborted. abortRef is    *)
(* the index of the request whose controller abortRef.current holds, 0     *)
(* for null.                                                               *)
(***************************************************************************)
MaxRequests == 3

HookSymbols == { <<" ">>, <<"E">>, <<"U">> }

HookState(status, price, error) == [status |-> status, price |-> price, error |-> error]

\* abortRef.current?.abort()
AbortCurrent(reqs, ref) ==
  [i \in 1..Len(reqs) |-> IF i = ref THEN [reqs[i] EXCEPT !.aborted = TRUE] ELSE reqs[i]]

\* !symbol?.trim()
SymbolMissing(symbol) == trim(symbol) = <<>>

NewRequest(symbol) ==
  [symbol |-> symbol, phase |-> IF SymbolMissing(symbol) THEN "done" ELSE "fetch",
   aborted |-> FALSE, ok |-> FALSE]

\* refetch that leaves the prior controller alone
Refetch_noAbort(symbol) ==
  /\ Len(hookReqs) < MaxRequests
  /\ hookReqs' = Append(hookReqs, NewRequest(symbol))
  /\ abortRef' = Len(hookReqs) + 1
  /\ hookWriter' = Len(hookReqs) + 1
  /\ hookState' = IF SymbolMissing(symbol)
                  THEN HookState("error", 0, "Symbol is required")
                  ELSE HookState("loading", 0, "")

\* refetch up to its first await
Refetch(symbol) ==
  /\ Len(hookReqs) < MaxRequests
  /\ hookReqs' = Append(AbortCurrent(hookReqs, abortRef), NewRequest(symbol))
  /\ abortRef' = Len(hookReqs) + 1
  /\ hookWriter' = Len(hookReqs) + 1
  /\ hookState' = IF SymbolMissing(symbol)
                  THEN HookState("error", 0, "Symbol is required")
                  ELSE HookState("loading", 0, "")

HookFrame == UNCHANGED <<apiVars, modalVars, caVars, msVars>>

\* the hook mounts: the effect on [url] runs refetch
HookMount ==
  /\ hookPhase = "fresh"
  /\ hookPhase' = "mounted"
  /\ Refetch(hookSymbol)
  /\ UNCHANGED hookSymbol
  /\ HookFrame

\* the symbol argument changes: cleanup of the effect, then refetch
HookSymbolChanges(symbol) ==
  /\ hookPhase = "mounted"
  /\ symbol # hookSymbol
  /\ hookSymbol' = symbol
  /\ Refetch(symbol)
  /\ UNCHANGED hookPhase
  /\ HookFrame

\* the caller invokes the returned refetch
HookRefetch ==
  /\ hookPhase = "mounted"
  /\ Refetch(hookSymbol)
  /\ UNCHANGED <<hookSymbol, hookPhase>>
  /\ HookFrame

\* the hook unmounts: cleanup of the effect
HookUnmount ==
  /\ hookPhase = "mounted"
  /\ hookPhase' = "unmounted"
  /\ hookReqs' = AbortCurrent(hookReqs, abortRef)
  /\ UNCHANGED <<hookSymbol, hookState, abortRef, hookWriter>>
  /\ HookFrame

\* setState of request i; React drops it once the hook is unmounted
HookWrites(i, state) ==
  IF hookPhase = "mounted"
  THEN hookState' = state /\ hookWriter' = i
  ELSE UNCHANGED <<hookState, hookWriter>>

\* fetch of request i resolves with a response
FetchResolves(i, ok) ==
  /\ i \in 1..Len(hookReqs)
  /\ hookReqs[i].phase = "fetch" /\ ~hookReqs[i].aborted
  /\ hookReqs' = [hookReqs EXCEPT ![i].phase = "json", ![i].ok = ok]
  /\ UNCHANGED <<hookSymbol, hookPhase, hookState, abortRef, hookWriter>>
  /\ HookFrame

FetchErrors == {"Failed to fetch", ""}

\* an awaited promise of request i rejects: AbortError when its controller
\* was aborted, the error e otherwise
RequestRejects(i, message) ==
  /\ i \in 1..Len(hookReqs)
  /\ hookReqs[i].phase \in {"fetch", "json"}
  /\ hookReqs' = [hookReqs EXCEPT ![i].phase = "done"]
  /\ IF hookReqs[i].aborted
     THEN UNCHANGED <<hookState, hookWriter>>
     ELSE HookWrites(i, HookState("error", 0, IF message = "" THEN "Request failed" ELSE message))
  /\ UNCHANGED <<hookSymbol, hookPhase, abortRef>>
  /\ HookFrame

\* the price field of the body: a number, or anything else
BodyPrices == {Some(7), None}

\* res.json() of request i resolves
JsonResolves(i, price) ==
  /\ i \in 1..Len(hookReqs)
  /\ hookReqs[i].phase = "json" /\ ~hookReqs[i].aborted
  /\ hookReqs' = [hookReqs EXCEPT ![i].phase = "done"]
  /\ HookWrites(i, IF ~hookReqs[i].ok THEN HookState("error", 0, "HTTP 500")
                   ELSE HookState("success", IF IsNone(price) THEN 0 ELSE The(price), ""))
  /\ UNCHANGED <<hookSymbol, hookPhase, abortRef>>
  /\ HookFrame

HookIdle ==
  /\ hookSymbol = <<"E">> /\ hookPhase = "fresh"
  /\ hookState = HookState("idle", 0, "")
  /\ abortRef = 0 /\ hookReqs = <<>> /\ hookWriter = 0

(***************************************************************************)
(* MoveSupplyModal                                                         *)
(* msPending counts the executeFlowBatchedIfPossible promises in flight;   *)
(* msCalls is the trace of builder and executor calls of the handleMove    *)
(* that ran in the step leading to the state, empty after any other step.  *)
(***************************************************************************)
MaxRuns == 2

\* the token prop: address, decimals and the raw balances it is seen with
MsToken         == "0xS"
MsDecimals      == 1
MsBalances      == {30, 20}
MsFromProtocol  == "Aave V3"

\* the protocols of the rates read
MsRates == <<"aave", "compound", "venus">>

\* .replace(/v\d+/i, ""): the first v followed by digits goes, with the digits
RemoveFirstVersion(s) ==
  LET at == {i \in 1..(Len(s) - 1) : s[i] \in {"v", "V"} /\ IsDigit(s[i + 1])}
  IN IF at = {} THEN s
     ELSE LET i == CHOOSE k \in at : \A j \in at : k <= j
          IN SubSeq(s, 1, i - 1) \o SubSeq(s, i + 1 + DigitPrefixLen(s, i + 1), Len(s))

\* toLowerCase().replace(/\s+/g, "").replace(/v\d+/i, "")
normalizeProtocolName(name) ==
  RemoveFirstVersion(RemoveWhiteSpace(toLowerCase(ProtocolText(name))))

\* rates.filter(rate => normalize(rate.protocol) !== normalize(fromProtocol))
MsProtocols ==
  {MsRates[i] : i \in {k \in 1..Len(MsRates) :
      normalizeProtocolName(MsRates[k]) # normalizeProtocolName(msFromProtocol)}}

formatInputValue(value) == formatUnits(value, MsDecimals)

\* the effect on [isEditingAmount, transferAmount, formatInputValue]: it runs
\* after every render, formatInputValue being a new function each time
EditEffect(editing, transfer, text) ==
  IF editing THEN formatInputValue(transfer) ELSE text

\* /^[0-9]*\.?[0-9]*$/
IsAmountText(text) ==
  /\ \A i \in 1..Len(text) : IsDigit(text[i]) \/ text[i] = "."
  /\ Cardinality({i \in 1..Len(text) : text[i] = "."}) <= 1

\* the builder and executor calls of handleMove
MoveCalls(transfer, raw, dest) ==
  <<Call("createMoveBuilder", "", <<>>, "")>>
  \o (IF normalizeProtocolName(msFromProtocol) = COMPOUND \/ normalizeProtocolName(dest) = COMPOUND
      THEN <<Call("setCompoundMarket", MsToken, <<>>, "")>>
      ELSE <<>>)
  \o <<IF transfer = raw
       THEN Call("buildMoveCollateral", MsToken, <<>>, "max")
       ELSE Call("buildMoveCollateral", MsToken, formatUnits(transfer, MsDecimals), "amount")>>
  \o <<Call("build", "", <<>>, "")>>
  \o <<Call("executeFlowBatchedIfPossible", "", <<>>, "")>>

MsFrame == UNCHANGED <<apiVars, modalVars, caVars, hookVars, msFromProtocol>>

\* the form is rendered: not the Success or Error screen
MsFormShown == msOpen /\ msStatus \in {"Initial", "Executing"}

\* a protocol of the dropdown is clicked
MsSelectProtocol(p) ==
  /\ MsFormShown
  /\ p \in MsProtocols
  /\ msSelectedProtocol' = p
  /\ msCalls' = <<>>
  /\ UNCHANGED <<msOpen, msRawBalance, msAddress, msStatus, msHash, msIsEditing,
                 msTransferAmount, msInputValue, msPending>>
  /\ MsFrame

\* startEditing, then the effect
MsStartEditing ==
  /\ MsFormShown
  /\ ~msIsEditing
  /\ msIsEditing' = TRUE
  /\ msInputValue' = EditEffect(TRUE, msTransferAmount, msInputValue)
  /\ msCalls' = <<>>
  /\ UNCHANGED <<msOpen, msRawBalance, msAddress, msStatus, msHash, msSelectedProtocol,
                 msTransferAmount, msPending>>
  /\ MsFrame

\* handleAmountChangeCallback, then the effect of the render it causes
MsType(text) ==
  /\ MsFormShown
  /\ msIsEditing
  /\ msInputValue' = IF IsAmountText(text)
                     THEN EditEffect(msIsEditing, msTransferAmount, text)
                     ELSE msInputValue
  /\ msCalls' = <<>>
  /\ UNCHANGED <<msOpen, msRawBalance, msAddress, msStatus, msHash, msSelectedProtocol,
                 msIsEditing, msTransferAmount, msPending>>
  /\ MsFrame

\* handleSetMaxAmountCallback
MsSetMax ==
  /\ MsFormShown
  /\ msIsEditing
  /\ msTransferAmount' = msRawBalance
  /\ msInputValue' = EditEffect(msIsEditing, msRawBalance, formatInputValue(msRawBalance))
  /\ msCalls' = <<>>
  /\ UNCHANGED <<msOpen, msRawBalance, msAddress, msStatus, msHash, msSelectedProtocol,
                 msIsEditing, msPending>>
  /\ MsFrame

\* the transferAmount handleFinishEditingCallback leaves
FinishedAmount(text, raw, transfer) ==
  IF text = <<>> THEN 0
  ELSE IF parseUnits(text, MsDecimals).throws THEN transfer
  ELSE IF parseUnits(text, MsDecimals).value > raw THEN raw
  ELSE parseUnits(text, MsDecimals).value

\* handleFinishEditingCallback, on blur or Enter
MsFinishEditing ==
  /\ MsFormShown
  /\ msIsEditing
  /\ msTransferAmount' = FinishedAmount(msInputValue, msRawBalance, msTransferAmount)
  /\ msInputValue' = IF msInputValue # <<>> /\ parseUnits(msInputValue, MsDecimals).throws
                     THEN formatInputValue(msTransferAmount)
                     ELSE msInputValue
  /\ msIsEditing' = FALSE
  /\ msCalls' = <<>>
  /\ UNCHANGED <<msOpen, msRawBalance, msAddress, msStatus, msHash, msSelectedProtocol,
                 msPending>>
  /\ MsFrame

\* the token prop arrives with another rawBalance: the effect on
\* [token.rawBalance], then the edit effect
MsBalanceRead(b) ==
  /\ b # msRawBalance
  /\ msRawBalance' = b
  /\ msTransferAmount' = b
  /\ msInputValue' = EditEffect(msIsEditing, b, msInputValue)
  /\ msCalls' = <<>>
  /\ UNCHANGED <<msOpen, msAddress, msStatus, msHash, msSelectedProtocol, msIsEditing,
                 msPending>>
  /\ MsFrame

\* useAccount reports another address
MsWalletChanges(addr) ==
  /\ addr # msAddress
  /\ msAddress' = addr
  /\ msCalls' = <<>>
  /\ UNCHANGED <<msOpen, msRawBalance, msStatus, msHash, msSelectedProtocol, msIsEditing,
                 msTransferAmount, msInputValue, msPending>>
  /\ MsFrame

\* the Move Position button: handleMove up to its await of the executor (the
\* chain is the modal's chain, or switchChain returns at once)
handleMove ==
  /\ MsFormShown
  /\ msStatus # "Executing"
  /\ msSelectedProtocol # "" /\ msAddress # NULL
  /\ msPending < MaxRuns
  /\ msStatus' = "Executing"
  /\ msPending' = msPending + 1
  /\ msCalls' = MoveCalls(msTransferAmount, msRawBalance, msSelectedProtocol)
  /\ UNCHANGED <<msOpen, msRawBalance, msAddress, msHash, msSelectedProtocol, msIsEditing,
                 msTransferAmount, msInputValue>>
  /\ MsFrame

MsHashes == {NULL, "0xhash"}

\* the executor resolves: the rest of the try block
MsExecutorResolves(hash) ==
  /\ msPending > 0
  /\ msPending' = msPending - 1
  /\ msHash' = hash
  /\ msStatus' = "Success"
  /\ msCalls' = <<>>
  /\ UNCHANGED <<msOpen, msRawBalance, msAddress, msSelectedProtocol, msIsEditing,
                 msTransferAmount, msInputValue>>
  /\ MsFrame

\* the executor rejects: the catch block
MsExecutorRejects ==
  /\ msPending > 0
  /\ msPending' = msPending - 1
  /\ msStatus' = "Error"
  /\ msCalls' = <<>>
  /\ UNCHANGED <<msOpen, msRawBalance, msAddress, msHash, msSelectedProtocol, msIsEditing,
                 msTransferAmount, msInputValue>>
  /\ MsFrame

\* the Try Again button of the Error screen
MsTryAgain ==
  /\ msOpen /\ msStatus = "Error"
  /\ msStatus' = "Initial"
  /\ msCalls' = <<>>
  /\ UNCHANGED <<msOpen, msRawBalance, msAddress, msHash, msSelectedProtocol, msIsEditing,
                 msTransferAmount, msInputValue, msPending>>
  /\ MsFrame

\* the state resetModal leaves, onClose() included
ResetModal ==
  /\ msStatus' = "Initial"
  /\ msHash' = NULL
  /\ msSelectedProtocol' = ""
  /\ msIsEditing' = FALSE
  /\ msTransferAmount' = msRawBalance
  /\ msInputValue' = <<>>
  /\ msOpen' = FALSE

\* resetModal from the Close button of the Success screen or the Cancel
\* button of the Error screen
resetModal ==
  /\ msOpen /\ msStatus \in {"Success", "Error"}
  /\ ResetModal
  /\ msCalls' = <<>>
  /\ UNCHANGED <<msRawBalance, msAddress, msPending>>
  /\ MsFrame

\* BaseModal calls its onClose prop: onClose in the Initial status,
\* resetModal in every other
MsDismiss ==
  /\ msOpen
  /\ IF msStatus = "Initial"
     THEN /\ msOpen' = FALSE
          /\ UNCHANGED <<msStatus, msHash, msSelectedProtocol, msIsEditing, msTransferAmount,
                         msInputValue>>
     ELSE ResetModal
  /\ msCalls' = <<>>
  /\ UNCHANGED <<msRawBalance, msAddress, msPending>>
  /\ MsFrame

\* the parent opens the modal again
MsReopen ==
  /\ ~msOpen
  /\ msOpen' = TRUE
  /\ msCalls' = <<>>
  /\ UNCHANGED <<msRawBalance, msAddress, msStatus, msHash, msSelectedProtocol, msIsEditing,
                 msTransferAmount, msInputValue, msPending>>
  /\ MsFrame

\* the modal as mounted and opened, for a balance of 3 tokens
MsFresh ==
  /\ msOpen = TRUE /\ msRawBalance = 30 /\ msAddress = "0xUser"
  /\ msStatus = "Initial" /\ msHash = NULL /\ msSelectedProtocol = ""
  /\ msIsEditing = FALSE /\ msTransferAmount = 30 /\ msInputValue = <<>>
  /\ msPending = 0 /\ msCalls = <<>>

MsIdle == MsFresh /\ msFromProtocol = MsFromProtocol

(***************************************************************************)
(* Initial states and specifications                                       *)
(***************************************************************************)
\* the debt of the position: 2 tokens, a negative balance as the app reports it
PositionBalance == 0 - 2 * Pow10(FracDigits)

Positions(types, prices) ==
  [type : types, balance : {PositionBalance}, tokenAddress : {DebtToken},
   decimals : {1}, tokenPrice : prices]

\* useState initialiser of tokenToPrices, plus the collateral prices given
InitialPrices(pos, known) ==
  [k \in PriceKeys |->
     IF k = AddrLower(pos.tokenAddress)
     THEN (IF ~IsNone(pos.tokenPrice) /\ The(pos.tokenPrice) # 0 THEN pos.tokenPrice ELSE None)
     ELSE known[k]]

NoPrices    == [k \in PriceKeys |-> None]
KnownPrices == [k \in PriceKeys |-> IF k = "0xa" THEN Some(2) ELSE Some(3)]

\* the modal as mounted and opened, before any input
ModalFresh ==
  /\ isOpen = TRUE
  /\ destProtocol = InitialDest(fromProtocol)
  /\ flashProvider = SettleFlash(flashFlags, NULL)
  /\ selectedCollats = <<>> /\ selectedCollaterals = <<>> /\ showUnsupported = FALSE
  /\ collateralOpen = TRUE /\ probes = NoLookups
  /\ amount = <<>> /\ isMaxDebt = FALSE
  /\ loading = FALSE /\ err = NULL /\ confirmCalls = <<>>

\* a modal nobody touches
ModalIdle ==
  /\ position \in Positions({"borrow"}, {Some(2)})
  /\ fromProtocol = "Aave V3" /\ chainId = Some(ChainId)
  /\ userAddress = "0xUser" /\ decimals = Some(1) /\ tokenBalance = Some(20)
  /\ flashFlags = {"aave"}
  /\ fetchedCollats = Catalog /\ supportedCollaterals = CatalogAddrs
  /\ tokenToPrices = InitialPrices(position, KnownPrices)
  /\ ModalFresh

CaIdle == caCollaterals = <<>>

SideIdle == CaIdle /\ HookIdle /\ MsIdle

ApiInit == ApiIdle /\ ModalIdle /\ SideIdle

SpecApi == ApiInit /\ [][ApiRequest \/ ApiNext]_vars

\* texts typed into the debt amount and the collateral amount inputs
ValidateDebtTexts == { <<>>, <<"0">>, <<"1">>, <<"2">>, <<"2", ".", "5">>, <<"x">> }
ModalAmountTexts  == { <<"1">>, <<"9">> }
SupportSets       == { {}, {"0xA"}, {"0xA", "0xB"} }
ProbePrices       == { Some(0), Some(2) }

\* validation: every read the confirm preconditions need has resolved; prices,
\* support, selection and amounts vary
ValidateInit ==
  /\ ApiIdle /\ SideIdle
  /\ position \in Positions({"borrow", "supply"}, {None, Some(2)})
  /\ fromProtocol = "Aave V3" /\ chainId = Some(ChainId)
  /\ userAddress = "0xUser" /\ decimals = Some(1) /\ tokenBalance = Some(20)
  /\ flashFlags = {"aave"}
  /\ fetchedCollats = Catalog /\ supportedCollaterals = CatalogAddrs
  /\ tokenToPrices = InitialPrices(position, NoPrices)
  /\ ModalFresh

ValidateNext ==
  \/ \E p \in Range(protocols) : SetDestProtocol(p)
  \/ \E text \in ValidateDebtTexts : SetAmount(text)
  \/ MaxDebt
  \/ \E i \in 1..Len(Catalog) : handleCollateralToggle(i)
  \/ \E i \in 1..Len(Catalog) : SelectorSetMax(i)
  \/ \E i \in 1..Len(Catalog), text \in ModalAmountTexts : SelectorAmountChange(i, text)
  \/ handleConfirm
  \/ ExecutorResolves
  \/ \E m \in ExecutorErrors : ExecutorRejects(m)
  \/ \E support \in SupportSets : SupportRead(support)
  \/ \E k \in PriceKeys \ {AddrLower(DebtToken)}, p8 \in ProbePrices : onPrice(k, p8)
  \/ \E p8 \in {None, Some(2)} : TokenPriceProp(p8)

SpecValidate == ValidateInit /\ [][ValidateNext]_vars

ConfirmDebtTexts   == { <<>>, <<"1">> }
ConfirmAmountTexts == { <<"1">> }
FlagSets           == { {}, {"aave"}, {"v2", "aave"} }

\* confirmation: prices and support are known; the wallet, the reads and the
\* flash providers vary
ConfirmInit ==
  /\ ApiIdle /\ SideIdle
  /\ position \in Positions({"borrow", "supply"}, {Some(2)})
  /\ fromProtocol = "Aave V3" /\ chainId = Some(ChainId)
  /\ userAddress \in {NULL, "0xUser"} /\ decimals = None /\ tokenBalance = None
  /\ flashFlags = {}
  /\ fetchedCollats = Catalog /\ supportedCollaterals = CatalogAddrs
  /\ tokenToPrices = InitialPrices(position, KnownPrices)
  /\ ModalFresh

ConfirmNext ==
  \/ \E p \in Range(protocols) : SetDestProtocol(p)
  \/ \E text \in ConfirmDebtTexts : SetAmount(text)
  \/ MaxDebt
  \/ \E fp \in Range(ALL_FLASH_LOAN_PROVIDERS) : SelectFlash(fp)
  \/ \E i \in 1..Len(Catalog) : handleCollateralToggle(i)
  \/ \E i \in 1..Len(Catalog) : SelectorSetMax(i)
  \/ \E i \in 1..Len(Catalog), text \in ConfirmAmountTexts : SelectorAmountChange(i, text)
  \/ handleConfirm
  \/ ExecutorResolves
  \/ \E m \in ExecutorErrors : ExecutorRejects(m)
  \/ \E addr \in {NULL, "0xUser"} : WalletChanges(addr)
  \/ \E d \in {None, Some(1)} : DecimalsRead(d)
  \/ \E b \in {None, Some(20)} : TokenBalanceRead(b)
  \/ \E flags \in FlagSets : FlashFlagsRead(flags)

SpecConfirm == ConfirmInit /\ [][ConfirmNext]_vars

\* chains: none given, on both white lists, on Aave's only, on neither
FlashChains == { None, Some(42161), Some(59144), Some(1) }

\* flash providers: any chain, and the router flags and the picked provider
\* change before the plan is built
FlashInit ==
  /\ ApiIdle /\ SideIdle
  /\ position \in Positions({"borrow"}, {Some(2)})
  /\ fromProtocol = "Venus" /\ chainId \in FlashChains
  /\ userAddress = "0xUser" /\ decimals = Some(1) /\ tokenBalance = Some(20)
  /\ flashFlags = {}
  /\ fetchedCollats = Catalog /\ supportedCollaterals = CatalogAddrs
  /\ tokenToPrices = InitialPrices(position, KnownPrices)
  /\ ModalFresh

FlashNext ==
  \/ \E flags \in SUBSET Range(ALL_FLASH_LOAN_PROVIDERS) : FlashFlagsRead(flags)
  \/ \E fp \in Range(ALL_FLASH_LOAN_PROVIDERS) : SelectFlash(fp)
  \/ \E text \in ConfirmDebtTexts : SetAmount(text)
  \/ \E i \in 1..Len(Catalog) : handleCollateralToggle(i)
  \/ \E i \in 1..Len(Catalog) : SelectorSetMax(i)
  \/ handleConfirm
  \/ ExecutorResolves
  \/ \E m \in ExecutorErrors : ExecutorRejects(m)

SpecFlash == FlashInit /\ [][FlashNext]_vars

\* fromProtocol is any string: the three display names and the lowercase id the
\* compound views use as protocolName
FromProtocols == {"Aave V3", "Compound V3", "Venus", "compound"}

\* both move modals, opened from a row of any protocol
ProtocolInit ==
  /\ ApiIdle /\ CaIdle /\ HookIdle /\ MsFresh
  /\ msFromProtocol \in FromProtocols
  /\ position \in Positions({"borrow"}, {Some(2)})
  /\ fromProtocol \in FromProtocols /\ chainId = Some(ChainId)
  /\ userAddress = "0xUser" /\ decimals = Some(1) /\ tokenBalance = Some(20)
  /\ flashFlags = {"aave"}
  /\ fetchedCollats = Catalog /\ supportedCollaterals = CatalogAddrs
  /\ tokenToPrices = InitialPrices(position, KnownPrices)
  /\ ModalFresh

ProtocolNext ==
  \/ \E p \in Range(protocols) : SetDestProtocol(p)
  \/ \E text \in ConfirmDebtTexts : SetAmount(text)
  \/ \E i \in 1..Len(Catalog) : handleCollateralToggle(i)
  \/ \E i \in 1..Len(Catalog) : SelectorSetMax(i)
  \/ handleConfirm
  \/ ExecutorResolves
  \/ \E p \in MsProtocols : MsSelectProtocol(p)
  \/ handleMove
  \/ \E hash \in MsHashes : MsExecutorResolves(hash)

SpecProtocols == ProtocolInit /\ [][ProtocolNext]_vars

\* the collateral section: rows are selected, the destination and its support
\* map change, the section is collapsed and expanded, the modal closed and opened
SectionNext ==
  \/ \E p \in Range(protocols) : SetDestProtocol(p)
  \/ \E support \in SupportSets : SupportRead(support)
  \/ \E i \in 1..Len(Catalog) : handleCollateralToggle(i)
  \/ \E i \in 1..Len(Catalog) : SelectorSetMax(i)
  \/ \E text \in ConfirmDebtTexts : SetAmount(text)
  \/ ToggleCollateralOpen
  \/ CloseModal
  \/ OpenModal
  \/ handleConfirm
  \/ ExecutorResolves
  \/ \E message \in ExecutorErrors : ExecutorRejects(message)

\* the lookups a probe's hook can settle in: loading, failed, success with no
\* price (0), with a price that rounds to zero, with the prices 2 and 3, and
\* with a price JSON.parse read as Infinity
Lookups ==
  { Lookup("loading", TRUE, 0), Lookup("error", TRUE, 0), Lookup("success", TRUE, 0),
    Lookup("success", TRUE, 1), Lookup("success", TRUE, 8), Lookup("success", TRUE, 12),
    Lookup("success", FALSE, 0) }

\* price probes: lookups settle while rows are selected and the debt price changes
ProbeInit ==
  /\ ApiIdle /\ SideIdle
  /\ position \in Positions({"borrow"}, {None, Some(2)})
  /\ fromProtocol = "Aave V3" /\ chainId = Some(ChainId)
  /\ userAddress = "0xUser" /\ decimals = Some(1) /\ tokenBalance = Some(20)
  /\ flashFlags = {"aave"}
  /\ fetchedCollats = Catalog /\ supportedCollaterals = CatalogAddrs
  /\ tokenToPrices = InitialPrices(position, NoPrices)
  /\ ModalFresh

ProbeNext ==
  \/ \E k \in ProbeKeys, r \in Lookups : ProbeLookup(k, r)
  \/ \E p8 \in {None, Some(2)} : TokenPriceProp(p8)
  \/ \E i \in 1..Len(Catalog) : handleCollateralToggle(i)
  \/ CloseModal
  \/ OpenModal

SpecProbe == ProbeInit /\ [][ProbeNext]_vars

SectionInit == ApiIdle /\ ModalIdle /\ SideIdle

SpecSection == SectionInit /\ [][SectionNext]_vars

\* the promise of executeFlowBatchedIfPossible settles
ExecutorSettles == ExecutorResolves \/ \E m \in ExecutorErrors : ExecutorRejects(m)

SpecConfirmLive == ConfirmInit /\ [][ConfirmNext]_vars /\ WF_vars(ExecutorSettles)

\* texts typed into the amount inputs of the selector and of CollateralAmounts
SelTexts == { <<>>, <<".">>, <<"1">>, <<"9">>, <<"-", "1">>, <<"x">> }

\* the amount input of row i of CollateralAmounts
CaAmountChange(i, text) ==
  /\ i \in 1..Len(caCollaterals)
  /\ caCollaterals[i].supported
  /\ caCollaterals' = CaChangeAmount(caCollaterals, caCollaterals[i].token, text,
                                     caCollaterals[i].decimals)
  /\ UNCHANGED <<apiVars, modalVars, hookVars, msVars>>

\* the MAX button of row i of CollateralAmounts
CaSetMaxClick(i) ==
  /\ i \in 1..Len(caCollaterals)
  /\ caCollaterals[i].supported
  /\ caCollaterals' = CaSetMax(caCollaterals, caCollaterals[i].token,
                               caCollaterals[i].maxAmount, caCollaterals[i].decimals)
  /\ UNCHANGED <<apiVars, modalVars, hookVars, msVars>>

\* the remove button of row i of CollateralAmounts
CaRemoveClick(i) ==
  /\ i \in 1..Len(caCollaterals)
  /\ caCollaterals' = CaRemove(caCollaterals, caCollaterals[i].token)
  /\ UNCHANGED <<apiVars, modalVars, hookVars, msVars>>

\* the entries a parent hands to CollateralAmounts: fresh selections
CaFresh(support) ==
  [i \in 1..Len(Catalog) |-> NewEntry(collatsForSelector(Catalog, support)[i])]

\* collateral selection: the selector inside the open modal and a
\* CollateralAmounts list, each driven by its inputs and buttons
SelInit ==
  /\ ApiIdle /\ ModalIdle /\ HookIdle /\ MsIdle
  /\ caCollaterals \in {CaFresh(CatalogAddrs), CaFresh({"0xA"})}

SelNext ==
  \/ \E i \in 1..Len(Catalog) : handleCollateralToggle(i)
  \/ \E i \in 1..Len(Catalog) : SelectorSetMax(i)
  \/ \E i \in 1..Len(Catalog), text \in SelTexts : SelectorAmountChange(i, text)
  \/ ToggleShowUnsupported
  \/ \E support \in SupportSets : SupportRead(support)
  \/ \E i \in 1..Len(Catalog) : CaSetMaxClick(i)
  \/ \E i \in 1..Len(Catalog), text \in SelTexts : CaAmountChange(i, text)
  \/ \E i \in 1..Len(Catalog) : CaRemoveClick(i)

SpecSel == SelInit /\ [][SelNext]_vars

\* the catalog with other raw balances of its two collaterals
Cat(a, b) ==
  [Catalog EXCEPT ![1].rawBalance = a, ![1].balance = a,
                  ![2].rawBalance = b, ![2].balance = b * (10 ^ FracDigits)]

Catalogs == { Cat(30, 4), Cat(20, 4), Cat(0, 4), Cat(30, 3) }

CatalogTexts == { <<"2">>, <<"9">> }

\* balances: the catalog and the support change under an open selector, and
\* the plan is built from the selection
CatalogInit ==
  /\ ApiIdle /\ SideIdle
  /\ position \in Positions({"borrow"}, {Some(2)})
  /\ fromProtocol = "Aave V3" /\ chainId = Some(ChainId)
  /\ userAddress = "0xUser" /\ decimals = Some(1) /\ tokenBalance = Some(20)
  /\ flashFlags = {"aave"}
  /\ fetchedCollats \in Catalogs /\ supportedCollaterals \in SupportSets
  /\ tokenToPrices \in {InitialPrices(position, KnownPrices),
                       InitialPrices(position, [KnownPrices EXCEPT !["0xa"] = None])}
  /\ isOpen = TRUE
  /\ destProtocol = InitialDest(fromProtocol)
  /\ flashProvider = SettleFlash(flashFlags, NULL)
  /\ selectedCollats = <<>> /\ selectedCollaterals = <<>> /\ showUnsupported = FALSE
  /\ collateralOpen = TRUE /\ probes = NoLookups
  /\ amount = <<"1">> /\ isMaxDebt = FALSE
  /\ loading = FALSE /\ err = NULL /\ confirmCalls = <<>>

CatalogNext ==
  \/ \E cat \in Catalogs : CollateralsRead(cat)
  \/ \E support \in SupportSets : SupportRead(support)
  \/ \E i \in 1..Len(Catalog) : handleCollateralToggle(i)
  \/ \E i \in 1..Len(Catalog) : SelectorSetMax(i)
  \/ \E i \in 1..Len(Catalog), text \in CatalogTexts : SelectorAmountChange(i, text)
  \/ ToggleShowUnsupported
  \/ handleConfirm
  \/ ExecutorResolves

SpecCatalog == CatalogInit /\ [][CatalogNext]_vars

\* amount editing: rows are selected and texts typed into the amount inputs
\* of the selector and of CollateralAmounts
EditNext ==
  \/ \E i \in 1..Len(Catalog) : handleCollateralToggle(i)
  \/ \E i \in 1..Len(Catalog), text \in SelTexts : SelectorAmountChange(i, text)
  \/ \E i \in 1..Len(Catalog), text \in SelTexts : CaAmountChange(i, text)

SpecEdit == SelInit /\ [][EditNext]_vars

\* the price hook: mount, symbol changes, refetches, settling requests, unmount
HookNext ==
  \/ HookMount
  \/ \E symbol \in HookSymbols : HookSymbolChanges(symbol)
  \/ HookRefetch
  \/ HookUnmount
  \/ \E i \in 1..MaxRequests, ok \in BOOLEAN : FetchResolves(i, ok)
  \/ \E i \in 1..MaxRequests, m \in FetchErrors : RequestRejects(i, m)
  \/ \E i \in 1..MaxRequests, price \in BodyPrices : JsonResolves(i, price)

HookInit == ApiIdle /\ ModalIdle /\ CaIdle /\ MsIdle /\ HookIdle

SpecHook == HookInit /\ [][HookNext]_vars

\* the supply modal: form inputs, moves, settling executors, closing and reopening
MsTexts == { <<>>, <<"1">>, <<"9">>, <<"x">> }

MsNext ==
  \/ \E p \in MsProtocols : MsSelectProtocol(p)
  \/ MsStartEditing
  \/ \E text \in MsTexts : MsType(text)
  \/ MsSetMax
  \/ MsFinishEditing
  \/ \E b \in MsBalances : MsBalanceRead(b)
  \/ \E addr \in {NULL, "0xUser"} : MsWalletChanges(addr)
  \/ handleMove
  \/ \E hash \in MsHashes : MsExecutorResolves(hash)
  \/ MsExecutorRejects
  \/ MsTryAgain
  \/ resetModal
  \/ MsDismiss
  \/ MsReopen

MsInit == ApiIdle /\ ModalIdle /\ CaIdle /\ HookIdle /\ MsIdle

SpecSupply == MsInit /\ [][MsNext]_vars

(***************************************************************************)
(* Properties of the token-info route                                      *)
(***************************************************************************)
Failed(outcome) == outcome \in {"reject", "notok", "badjson"}

\* the symbol parameter is missing, empty or made of white space only
IsBlank(o) == IsNone(o) \/ \A i \in 1..Len(The(o)) : The(o)[i] \in WhiteSpace

\* C2: the response status is always 200 or 400, and for a non-blank symbol
\* whose price lookups all fail (non-OK, rejected fetch or throwing JSON
\* parse) the response is 200 with price 0
ApiNeverFails ==
  apiPhase = "responded" =>
    /\ apiOut.status \in {200, 400}
    /\ (~IsBlank(apiIn.symbol) /\ Failed(apiIn.specific) /\ Failed(apiIn.fallback))
         => (apiOut.status = 200 /\ apiOut.price = 0)
    /\ (~IsBlank(apiIn.symbol) /\ Failed(apiIn.search) /\ Failed(apiIn.fallback))
         => (apiOut.status = 200 /\ apiOut.price = 0)

\* a rejected search fetch for a non-blank symbol was answered 200 {price: 0}
ApiNeverFailsWitness ==
  /\ apiPhase = "responded"
  /\ apiIn.symbol = Some(<<"W","E","T","H">>)
  /\ apiIn.search = "reject"
  /\ apiOut.status = 200 /\ apiOut.price = 0

\* C3: status 400 with price 0 exactly for a missing, empty or white-space
\* symbol, with no upstream request made; every other request gets 200
ApiBadRequest ==
  apiPhase = "responded" =>
    /\ (apiOut.status = 400) <=> IsBlank(apiIn.symbol)
    /\ IsBlank(apiIn.symbol) => (apiOut.price = 0 /\ apiOut.calls = <<>>)
    /\ ~IsBlank(apiIn.symbol) => (apiOut.status = 200 /\ Len(apiOut.calls) >= 1)

\* a symbol of white space only was answered 400 without an upstream call
ApiBadRequestWitness ==
  /\ apiPhase = "responded"
  /\ apiIn.symbol = Some(<<" ", "\t">>)
  /\ apiOut.status = 400 /\ apiOut.calls = <<>>

\* the specific-token price is zero or unavailable
SpecificUnavailable(in) ==
  \/ Failed(in.search)
  \/ in.coins = <<>>
  \/ Failed(in.specific)
  \/ in.specific \in {"zero", "nonnum"}

\* C4: for an ETH-like symbol whose specific price is zero or unavailable the
\* response carries the ethereum quote whenever that quote is obtainable, and
\* for a symbol that is only USD-like the usd-coin quote
ApiFallbackAlways ==
  (/\ apiPhase = "responded"
   /\ ~IsBlank(apiIn.symbol)
   /\ SpecificUnavailable(apiIn)
   /\ apiIn.fallback = "num")
  => /\ ethLikeRe(trim(The(apiIn.symbol))) => apiOut.price = Quote["ethereum"]
     /\ (~ethLikeRe(trim(The(apiIn.symbol))) /\ usdLikeRe(trim(The(apiIn.symbol))))
          => apiOut.price = Quote["usd-coin"]

\* a ranks no later than b: a null rank comes after every number
RankNoLater(a, b) ==
  \/ IsNone(b.market_cap_rank)
  \/ ~IsNone(a.market_cap_rank) /\ The(a.market_cap_rank) <= The(b.market_cap_rank)

SameSymbol(c, o) == toLowerCase(c.symbol) = toLowerCase(trim(The(o)))

\* C5: with an exact case-insensitive symbol match among the search results
\* the resolved id is that of an exact match ranked no later than every other
\* exact match, never a non-exact candidate; without one it is the id of a
\* coin ranked no later than every other result
ApiResolvePrefersExact ==
  (apiPhase = "responded" /\ ~IsBlank(apiIn.symbol) /\ apiIn.search = "ok" /\ apiIn.coins # <<>>)
  => LET all   == Range(apiIn.coins)
         exact == {c \in all : SameSymbol(c, apiIn.symbol)}
         from  == IF exact # {} THEN exact ELSE all
     IN \E c \in from : /\ apiOut.resolvedId = c.id
                        /\ \A d \in from : RankNoLater(c, d)

\* an exact match was resolved although a non-exact coin has a better rank
ApiResolvePrefersExactWitness ==
  /\ apiPhase = "responded"
  /\ apiIn.symbol = Some(<<"W","E","T","H">>)
  /\ apiIn.search = "ok"
  /\ \E i \in 1..Len(apiIn.coins) : apiIn.coins[i].id = "ethx"
  /\ \E i \in 1..Len(apiIn.coins) : apiIn.coins[i].id = "weth-bridged"
  /\ apiOut.resolvedId = "weth-bridged"

(***************************************************************************)
(* Properties of handleConfirm                                             *)
(***************************************************************************)
PlanOps == {"buildUnlockDebt", "buildMoveCollateral", "buildBorrow"}

IsPlanOp(c) == c.op \in PlanOps

\* the instructions handed to the builder, in call order
BuilderOps(calls) == SelectSeq(calls, IsPlanOp)

\* the calls end with a submission to the executor
Submitted(calls) ==
  \E i \in 1..Len(calls) : calls[i].op = "executeFlowBatchedIfPossible"

\* one unlock, one move per selected collateral in selection order, one
\* borrow, then build and, last, the executor
PlanShape(calls, sel) ==
  LET plan == BuilderOps(calls)
      n    == Len(sel)
  IN /\ Len(plan) = n + 2
     /\ plan[1].op = "buildUnlockDebt"
     /\ \A i \in 1..n : /\ plan[i + 1].op = "buildMoveCollateral"
                        /\ plan[i + 1].token = sel[i].token
     /\ plan[n + 2].op = "buildBorrow"
     /\ Len(calls) >= 2
     /\ calls[Len(calls)].op = "executeFlowBatchedIfPossible"
     /\ calls[Len(calls) - 1].op = "build"
     /\ \A i \in 1..(Len(calls) - 2) : calls[i].op \notin {"build", "executeFlowBatchedIfPossible"}

\* the checks of handleConfirm pass for a borrow-type move
BorrowPreconditionsPass ==
  /\ position.type = "borrow"
  /\ userAddress # NULL
  /\ ~IsNone(decimals) /\ The(decimals) # 0
  /\ destProtocol # ""
  /\ flashProvider # NULL
  /\ LET text == IF isMaxDebt
                 THEN formatUnits(IF IsNone(tokenBalance) THEN 0 ELSE The(tokenBalance),
                                  The(decimals))
                 ELSE amount
     IN text # <<>> /\ ~parseFloat(text).nan /\ parseFloat(text).v > 0
  /\ isMaxDebt => (~IsNone(tokenBalance) /\ The(tokenBalance) # 0)

\* C1: a handleConfirm of a borrow-type move whose preconditions pass submits
\* a plan, and every plan submitted to the executor is exactly one
\* buildUnlockDebt, then one buildMoveCollateral per selected collateral in
\* selection order, then one buildBorrow, built before the submission
MovePlanOrder ==
  [][ /\ (handleConfirm /\ BorrowPreconditionsPass) => Submitted(confirmCalls')
      /\ Submitted(confirmCalls') => (/\ handleConfirm
                                      /\ BorrowPreconditionsPass
                                      /\ PlanShape(confirmCalls', selectedCollats')) ]_vars

\* a plan moving two collaterals has been submitted
MovePlanOrderWitness ==
  /\ Submitted(confirmCalls)
  /\ Len(selectedCollats) = 2
  /\ loading

\* C10 as stated: every handleConfirm of a supply position fails with the
\* not-implemented error, builds nothing and does not reach the executor
SupplyAlwaysNotImplemented ==
  [][ (handleConfirm /\ position.type = "supply")
        => /\ err' = "Supply move not implemented yet."
           /\ confirmCalls' = <<>>
           /\ ~loading' ]_vars

\* C10, amended: every handleConfirm of a supply position fails, builds
\* nothing and does not reach the executor; the error is the not-implemented
\* one when the wallet is connected and the decimals are loaded, and that of
\* the wallet or decimals check otherwise
SupplyMoveFails ==
  [][ (handleConfirm /\ position.type = "supply")
        => /\ err' = (IF userAddress = NULL THEN "Connect your wallet."
                      ELSE IF IsNone(decimals) \/ The(decimals) = 0
                           THEN "Token decimals not loaded."
                      ELSE "Supply move not implemented yet.")
           /\ confirmCalls' = <<>>
           /\ ~loading' ]_vars

\* a supply move was confirmed and refused as not implemented
SupplyMoveFailsWitness ==
  /\ position.type = "supply"
  /\ err = "Supply move not implemented yet."
  /\ userAddress # NULL
  /\ confirmCalls = <<>> /\ ~loading

(***************************************************************************)
(* Properties of the health factor and of the validation                   *)
(***************************************************************************)
IsZero(x) == ~x.nan /\ x.v = 0

CurrentCollateralUsd == remainingCollateralUsd(AllCollats, <<>>, tokenToPrices)

RemainingCollateralUsd == remainingCollateralUsd(AllCollats, selectedCollats, tokenToPrices)

CurrentDebtUsd == currentDebtUsd(position, tokenToPrices)

RemainingDebtUsd == remainingDebtUsd(amount, position, tokenToPrices)

CurrentHF == currentHF(AllCollats, position, tokenToPrices)

ProjectedHF == projectedHF(AllCollats, selectedCollats, amount, position, tokenToPrices)

\* the quotient is a finite number over a positive denominator
ProperQuotient(hf) == hf.kind = "num" /\ hf.d > 0

ExceedsDebt ==
  /\ amount # <<>>
  /\ ~parseFloat(amount).nan
  /\ parseFloat(amount).v > NumAbs(Num(position.balance)).v

\* C8: with a debt amount that is empty or zero or exceeds the debt balance,
\* or with no destination selected, canConfirm is false and the issues list
\* is not empty
DebtAmountBlocksConfirm ==
  (\/ amount = <<>>
   \/ IsZero(parseFloat(TextOr0(amount)))
   \/ ExceedsDebt
   \/ destProtocol = "")
  => (~canConfirm /\ Len(Issues) > 0)

\* the price of the debt token or of a selected collateral is missing
PriceUnresolved ==
  \/ IsNone(tokenToPrices[AddrLower(position.tokenAddress)])
  \/ \E i \in 1..Len(selectedCollats) : IsNone(tokenToPrices[AddrLower(selectedCollats[i].token)])

\* C9: while the price of the debt token or of a selected collateral is
\* missing, canConfirm is false
UnresolvedBlocksConfirm == PriceUnresolved => ~canConfirm

(***************************************************************************)
(* Properties of the collateral amounts                                    *)
(***************************************************************************)
WithinMax(list) ==
  \A i \in 1..Len(list) : 0 <= list[i].amount /\ list[i].amount <= list[i].maxAmount

\* C7: every entry of the selector's selection and of the CollateralAmounts
\* list has 0 <= amount <= maxAmount
AmountsWithinMax == WithinMax(selectedCollaterals) /\ WithinMax(caCollaterals)

(***************************************************************************)
(* Properties of the failures of handleConfirm                             *)
(***************************************************************************)
\* the build-time failure conditions that hold in the current state
FailingConditions ==
  {c \in {"wallet", "decimals", "destination", "supply", "flash"} :
     \/ c = "wallet" /\ userAddress = NULL
     \/ c = "decimals" /\ (IsNone(decimals) \/ The(decimals) = 0)
     \/ c = "destination" /\ destProtocol = ""
     \/ c = "supply" /\ position.type = "supply"
     \/ c = "flash" /\ flashProvider = NULL}

FailureMessage ==
  [c \in {"wallet", "decimals", "destination", "supply", "flash"} |->
     CASE c = "wallet"      -> "Connect your wallet."
       [] c = "decimals"    -> "Token decimals not loaded."
       [] c = "destination" -> "Select destination protocol."
       [] c = "supply"      -> "Supply move not implemented yet."
       [] c = "flash"       -> "No flash loan provider available."]

\* C11: a handleConfirm with exactly one build-time failure condition
\* violated sets that condition's message, the five messages being pairwise
\* distinct, builds nothing, does not reach the executor and leaves the
\* modal idle, so that nothing runs again without another click
PreconditionMessages ==
  [][ (handleConfirm /\ Cardinality(FailingConditions) = 1)
        => /\ \A c \in FailingConditions : err' = FailureMessage[c]
           /\ \A c, e \in DOMAIN FailureMessage : c # e => FailureMessage[c] # FailureMessage[e]
           /\ confirmCalls' = <<>>
           /\ ~loading' ]_vars

\* a borrow move with only the flash provider missing was refused
PreconditionMessagesWitness ==
  /\ FailingConditions = {"flash"}
  /\ err = "No flash loan provider available."
  /\ confirmCalls = <<>> /\ ~loading /\ isOpen

\* the messages the executor can fail with, as shown by the catch block
ShownExecutorErrors == {IF m = "" THEN "Move failed." ELSE m : m \in ExecutorErrors}

\* C12: a handleConfirm that throws before its await ends at once with
\* loading false, err set and the modal still open; one that awaits the
\* executor ends, once the executor settles, with loading false and either
\* the modal closed once with err null or the modal open with err the
\* executor's message or "Move failed."; the modal closes in no other way
\* and err is null while the executor runs
ConfirmSettles ==
  /\ [][ /\ (handleConfirm /\ ~loading')
              => (err' # NULL /\ err' # "" /\ isOpen' = isOpen)
         /\ (handleConfirm /\ loading') => err' = NULL
         /\ (loading /\ ~loading')
              => \/ (~isOpen' /\ isOpen /\ err' = NULL)
                 \/ (isOpen' = isOpen /\ err' \in ShownExecutorErrors)
         /\ (isOpen /\ ~isOpen') => (loading /\ ~loading' /\ err' = NULL)
         /\ loading' => err' = NULL ]_vars
  /\ (loading ~> ~loading)

\* the executor rejected without a message and the modal shows "Move failed."
ConfirmSettlesWitness ==
  /\ ~loading /\ isOpen
  /\ err = "Move failed."


(***************************************************************************)
(* Properties of useTokenPriceApi                                          *)
(***************************************************************************)
\* request i is in flight: one of its awaits is pending
InFlight(i) == hookReqs[i].phase \in {"fetch", "json"}

\* C13: starting a request aborts the request in flight before it, so every
\* request but the last started is aborted or over; a step that ends an
\* aborted request leaves the state alone; and the state, once written, was
\* written by the last request started.
LatestRequestWins ==
  /\ [](\A i \in 1..Len(hookReqs) :
          (i < Len(hookReqs) /\ InFlight(i)) => hookReqs[i].aborted)
  /\ [][\A i \in 1..Len(hookReqs) :
          (hookReqs[i].aborted /\ hookReqs'[i] # hookReqs[i])
            => (hookState' = hookState /\ hookWriter' = hookWriter)]_vars
  /\ [](hookState.status # "idle" => hookWriter = Len(hookReqs))

LatestRequestWinsWitness ==
  /\ Len(hookReqs) = 2
  /\ hookReqs[1].aborted /\ hookReqs[1].phase = "done"
  /\ hookState = HookState("success", 7, "") /\ hookWriter = 2


(***************************************************************************)
(* Properties of MoveSupplyModal                                           *)
(***************************************************************************)
\* the step runs handleMove: the executor is invoked
ExecutorInvoked == msCalls' # <<>>

\* C14: a rejection of the executor moves the status from Executing to
\* Error, the executor is invoked only by Move pressed in the Initial status
\* with no run in flight, and Success and Error are left only for Initial.
RejectionEndsRun ==
  [][ /\ (msStatus' = "Error" /\ msStatus # "Error") => msStatus = "Executing"
      /\ (msPending' < msPending /\ msStatus' = "Error") => msStatus = "Executing"
      /\ ExecutorInvoked => (msStatus = "Initial" /\ msPending = 0)
      /\ (msStatus \in {"Success", "Error"} /\ msStatus' # msStatus)
           => msStatus' = "Initial" ]_vars


(***************************************************************************)
(* Properties of the collateral selection                                  *)
(***************************************************************************)
\* the entry of token t in a list of entries, as a set
EntryOf(list, t) == {e \in Range(list) : e.token = t}

\* the list without the entries of token t
Others(list, t) == SeqFilterIdx(list, {e \in Range(list) : e.token # t}, 1)

\* an entry as MAX leaves it
AtMax(e) ==
  /\ e.amount = e.maxAmount
  /\ e.inputValue = Some(formatUnits(e.maxAmount, e.decimals))

\* C15: MAX on a selected collateral, in the selector and in CollateralAmounts,
\* sets the entry's amount to its maxAmount and its inputValue to the
\* formatted maxAmount, leaves every other entry as it was, and pressing it
\* again changes nothing.
MaxSetsExactMax ==
  /\ [][\A i \in 1..Len(Catalog) :
          /\ SelectorSetMax(i) =>
               /\ \A e \in EntryOf(selectedCollaterals', AllCollats[i].address) : AtMax(e)
               /\ Others(selectedCollaterals', AllCollats[i].address)
                    = Others(selectedCollaterals, AllCollats[i].address)
               /\ Len(selectedCollaterals') = Len(selectedCollaterals)
               /\ SetMax(selectedCollaterals', AllCollats[i].address) = selectedCollaterals'
               /\ selectedCollats' = selectedCollaterals'
          /\ CaSetMaxClick(i) =>
               /\ \A e \in EntryOf(caCollaterals', caCollaterals[i].token) : AtMax(e)
               /\ Others(caCollaterals', caCollaterals[i].token)
                    = Others(caCollaterals, caCollaterals[i].token)
               /\ Len(caCollaterals') = Len(caCollaterals)
               /\ CaSetMax(caCollaterals', caCollaterals[i].token, caCollaterals[i].maxAmount,
                           caCollaterals[i].decimals) = caCollaterals' ]_vars

MaxSetsExactMaxWitness ==
  /\ Len(selectedCollaterals) = 2
  /\ AtMax(selectedCollaterals[1]) /\ selectedCollaterals[1].maxAmount = 30
  /\ selectedCollaterals[2].inputValue = Some(<<"1">>)
  /\ \E i \in 1..Len(caCollaterals) : AtMax(caCollaterals[i])

\* what the claim says an amount text leaves in entry e
ClampedEntry(e, text, decs) ==
  IF parseUnits(text, decs).value > e.maxAmount
  THEN [e EXCEPT !.amount = e.maxAmount, !.inputValue = Some(formatUnits(e.maxAmount, decs))]
  ELSE [e EXCEPT !.amount = parseUnits(text, decs).value, !.inputValue = Some(text)]

\* C16: an amount text that parses to more than the entry's maxAmount leaves
\* amount = maxAmount and the formatted maxAmount as the displayed string; a
\* text that parses to maxAmount or less leaves the parsed amount and the
\* text itself.
AmountTextClamped ==
  [][\A i \in 1..Len(Catalog), text \in SelTexts :
       /\ (SelectorAmountChange(i, text) /\ text # <<>> /\ ~parseUnits(text, AllCollats[i].decimals).throws)
            => \A e \in EntryOf(selectedCollaterals, AllCollats[i].address) :
                 EntryOf(selectedCollaterals', AllCollats[i].address)
                   = {ClampedEntry(e, text, AllCollats[i].decimals)}
       /\ (CaAmountChange(i, text) /\ text # <<>> /\ ~parseUnits(text, caCollaterals[i].decimals).throws)
            => caCollaterals'[i] = ClampedEntry(caCollaterals[i], text, caCollaterals[i].decimals)
    ]_vars

\* C18: a step that flips "show unsupported" leaves the selection inside the
\* selector, the selection reported to the modal and the rest of the modal
\* as they were.
ShowUnsupportedKeepsSelection ==
  [][showUnsupported' # showUnsupported
       => UNCHANGED <<selectedCollaterals, selectedCollats, propVars, readVars, formVars,
                      runVars>>]_vars

ShowUnsupportedKeepsSelectionWitness ==
  /\ showUnsupported
  /\ Len(selectedCollaterals) = 1 /\ selectedCollaterals[1].amount > 0
  /\ \E i \in 1..Len(AllCollats) : ~IsAvailable(AllCollats[i])

\* the token addresses of a selection
Tokens(sel) == {sel[i].token : i \in 1..Len(sel)}

\* C19: a toggle of a supported collateral with a balance adds its address
\* to the selection when absent and removes it when present, the other
\* entries staying; a toggle of an unsupported or empty collateral leaves
\* the selection as it was; and no two entries have the same token.
SelectionKeyedByToken ==
  /\ [](\A i, j \in 1..Len(selectedCollaterals) :
          selectedCollaterals[i].token = selectedCollaterals[j].token => i = j)
  /\ [][\A i \in 1..Len(Catalog) : handleCollateralToggle(i) =>
          LET c == AllCollats[i]
          IN IF c.supported /\ c.rawBalance > 0
             THEN /\ Tokens(selectedCollaterals') =
                       IF c.address \in Tokens(selectedCollaterals)
                       THEN Tokens(selectedCollaterals) \ {c.address}
                       ELSE Tokens(selectedCollaterals) \cup {c.address}
                  /\ Others(selectedCollaterals', c.address) = Others(selectedCollaterals, c.address)
             ELSE selectedCollaterals' = selectedCollaterals ]_vars

SelectionKeyedByTokenWitness ==
  /\ Len(selectedCollaterals) = 2
  /\ selectedCollaterals[1].token = "0xB" /\ selectedCollaterals[2].token = "0xA"
  /\ showUnsupported
  /\ \E i \in 1..Len(AllCollats) : ~IsAvailable(AllCollats[i])

\* the available and the unsupported collaterals of the catalog
Available == availableCollaterals(AllCollats)

\* C20: the available list holds exactly the supported collaterals with a
\* raw balance above zero, each once, by descending balance and then by
\* ascending symbol; every other collateral of the catalog is counted as
\* unsupported.
AvailableSorted ==
  /\ Range(Available) = {c \in Range(AllCollats) : c.supported /\ c.rawBalance > 0}
  /\ Len(Available) = Cardinality(Range(Available))
  /\ \A i, j \in 1..Len(Available) :
       i < j => \/ Available[i].balance > Available[j].balance
                \/ /\ Available[i].balance = Available[j].balance
                   /\ SymbolBefore(Available[i].symbol, Available[j].symbol)
  /\ unsupportedCount(AllCollats) + Len(Available) = Len(AllCollats)
  /\ unsupportedCount(AllCollats)
       = Cardinality({i \in 1..Len(AllCollats) : AllCollats[i] \notin Range(Available)})

AvailableSortedWitness ==
  /\ Len(Available) = 2
  /\ Available[1].symbol = "USDC" /\ Available[1].balance = Available[2].balance
  /\ AllCollats[1].symbol = "WETH"
  /\ selectedCollaterals # <<>>

\* the raw balance useCollaterals reports for a token now
LiveMax(token) ==
  LET k == CHOOSE i \in 1..Len(fetchedCollats) : fetchedCollats[i].address = token
  IN fetchedCollats[k].rawBalance

\* C17: in the plan handleConfirm submits, the move of each selected
\* collateral carries the withdraw-max sentinel when the selected amount is
\* the raw balance the token has at that moment, and the formatted amount
\* otherwise.
MaxSentinelOnLiveMax ==
  [][(handleConfirm /\ Submitted(confirmCalls'))
       => \A k \in 1..Len(selectedCollats) :
            \E n \in 1..Len(confirmCalls') :
              confirmCalls'[n] =
                IF selectedCollats[k].amount = LiveMax(selectedCollats[k].token)
                THEN Call("buildMoveCollateral", selectedCollats[k].token, <<>>, "max")
                ELSE Call("buildMoveCollateral", selectedCollats[k].token,
                          formatUnits(selectedCollats[k].amount, selectedCollats[k].decimals),
                          "amount")]_vars


\* the text is empty, "." or not a decimal number
UnusableText(text, decs) ==
  text = <<>> \/ text = <<".">> \/ parseUnits(text, decs).throws

\* C21: an amount edit with a text that is empty, "." or not a decimal
\* number, in the selector and in CollateralAmounts, leaves amount 0 and
\* the text itself in the entry of the token and every other entry as it
\* was; the edit always yields a list of the same length.
UnusableTextGivesZero ==
  [][\A i \in 1..Len(Catalog), text \in SelTexts :
       /\ SelectorAmountChange(i, text) =>
            /\ Len(selectedCollaterals') = Len(selectedCollaterals)
            /\ Others(selectedCollaterals', AllCollats[i].address)
                 = Others(selectedCollaterals, AllCollats[i].address)
            /\ UnusableText(text, AllCollats[i].decimals) =>
                 \A e \in EntryOf(selectedCollaterals, AllCollats[i].address) :
                   EntryOf(selectedCollaterals', AllCollats[i].address)
                     = {[e EXCEPT !.amount = 0, !.inputValue = Some(text)]}
       /\ CaAmountChange(i, text) =>
            /\ Len(caCollaterals') = Len(caCollaterals)
            /\ Others(caCollaterals', caCollaterals[i].token)
                 = Others(caCollaterals, caCollaterals[i].token)
            /\ UnusableText(text, caCollaterals[i].decimals) =>
                 caCollaterals'[i] = [caCollaterals[i] EXCEPT !.amount = 0,
                                                              !.inputValue = Some(text)]
    ]_vars

UnusableTextGivesZeroWitness ==
  /\ \E i \in 1..Len(selectedCollaterals) :
       /\ selectedCollaterals[i].amount = 0
       /\ selectedCollaterals[i].inputValue = Some(<<"x">>)
  /\ \E i \in 1..Len(selectedCollaterals) : selectedCollaterals[i].amount > 0
  /\ \E i \in 1..Len(caCollaterals) :
       caCollaterals[i].amount = 0 /\ caCollaterals[i].inputValue = Some(<<".">>)


(***************************************************************************)
(* Properties of the health factor weighting                               *)
(***************************************************************************)
\* the asset's own threshold in basis points, 8273 when it has none
OwnThresholdBps(c) ==
  LET own == c.liquidationThresholdBps \cup c.collateralFactorBps \cup c.ltBps \cup c.ltvBps
  IN IF own = {} THEN 8273
     ELSE IF ~IsNone(c.liquidationThresholdBps) THEN The(c.liquidationThresholdBps)
     ELSE IF ~IsNone(c.collateralFactorBps) THEN The(c.collateralFactorBps)
     ELSE IF ~IsNone(c.ltBps) THEN The(c.ltBps)
     ELSE The(c.ltvBps)

\* rawBalance minus the amount selected for the address
RemainingRaw(c, sel) == c.rawBalance - SelectedAmount(sel, c.address)

\* sum over the collaterals with a known price of the remaining amount in
\* USD times the threshold in basis points
ThresholdWeightedUsd(sel) ==
  SumSeq([i \in 1..Len(AllCollats) |->
            LET c == AllCollats[i]
                known == ~IsNone(tokenToPrices[AddrLower(c.address)])
            IN IF ~known THEN 0
               ELSE UnitsToNumber(RemainingRaw(c, sel), c.decimals).v
                      * The(tokenToPrices[AddrLower(c.address)]) * OwnThresholdBps(c)])

\* the same sum over the collaterals of which something remains
PositiveWeightedUsd(sel) ==
  SumSeq([i \in 1..Len(AllCollats) |->
            LET c == AllCollats[i]
                known == ~IsNone(tokenToPrices[AddrLower(c.address)])
            IN IF ~known \/ RemainingRaw(c, sel) <= 0 THEN 0
               ELSE UnitsToNumber(RemainingRaw(c, sel), c.decimals).v
                      * The(tokenToPrices[AddrLower(c.address)]) * OwnThresholdBps(c)])

PositiveValue(x) == ~x.nan /\ x.v > 0

Quotient(n, d) == [kind |-> "num", n |-> n, d |-> d]

FlashUsable(v) ==
  /\ v \in flashFlags
  /\ \E chain \in chainId :
       IF v = "aave" THEN chain \in {42161, 8453, 10, 59144}
       ELSE chain \in {42161, 8453, 10}

\* C23: the providers offered are those of the catalog whose router flag is
\* set and whose white list holds the chain; the selected provider is null
\* exactly when none is offered and is otherwise one of those offered; and
\* the unlock instruction of a plan names a provider that is enabled and
\* white-listed.
FlashProviderOffered ==
  /\ [](Range(availableFlash(flashFlags))
          = {v \in Range(ALL_FLASH_LOAN_PROVIDERS) : FlashUsable(v)})
  /\ [](IF availableFlash(flashFlags) = <<>> THEN flashProvider = NULL
        ELSE flashProvider \in Range(availableFlash(flashFlags)))
  /\ [][handleConfirm =>
          \A n \in 1..Len(confirmCalls') :
            confirmCalls'[n].op = "buildUnlockDebt" => FlashUsable(confirmCalls'[n].flag)]_vars

FlashProviderOfferedWitness ==
  /\ chainId = Some(59144)
  /\ flashFlags = Range(ALL_FLASH_LOAN_PROVIDERS)
  /\ flashProvider = "aave"
  /\ \E n \in 1..Len(confirmCalls) :
       confirmCalls[n].op = "buildUnlockDebt" /\ confirmCalls[n].flag = "aave"

\* the builder calls of one confirm or move
SetsCompoundMarket(calls, token) ==
  \E i \in 1..Len(calls) : calls[i].op = "setCompoundMarket" /\ calls[i].token = token

\* setCompoundMarket is the call right after createMoveBuilder; nothing is built before it
MarketSetFirst(calls, token) ==
  /\ Len(calls) >= 2
  /\ calls[1].op = "createMoveBuilder"
  /\ calls[2].op = "setCompoundMarket" /\ calls[2].token = token
  /\ \A i \in 3..Len(calls) : calls[i].op # "setCompoundMarket"

\* C24: the plan of a confirm (MovePositionModal) or of a move (MoveSupplyModal)
\* carries setCompoundMarket with the position's token exactly when the source
\* or the destination protocol normalizes to compound, and then it is the call
\* right after the builder is created, before every instruction.
CompoundMarketSet ==
  /\ confirmCalls # <<>> =>
        /\ SetsCompoundMarket(confirmCalls, position.tokenAddress)
              <=> (NormalizeProtocol(fromProtocol) = COMPOUND
                   \/ NormalizeProtocol(destProtocol) = COMPOUND)
        /\ SetsCompoundMarket(confirmCalls, position.tokenAddress)
              => MarketSetFirst(confirmCalls, position.tokenAddress)
        /\ \A i \in 1..Len(confirmCalls) :
              confirmCalls[i].op = "setCompoundMarket"
                => confirmCalls[i].token = position.tokenAddress
  /\ msCalls # <<>> =>
        /\ SetsCompoundMarket(msCalls, MsToken)
              <=> (normalizeProtocolName(msFromProtocol) = COMPOUND
                   \/ normalizeProtocolName(msSelectedProtocol) = COMPOUND)
        /\ SetsCompoundMarket(msCalls, MsToken) => MarketSetFirst(msCalls, MsToken)
        /\ \A i \in 1..Len(msCalls) :
              msCalls[i].op = "setCompoundMarket" => msCalls[i].token = MsToken

\* both modals have a plan with the market set, one for a compound source and
\* one for a compound destination
CompoundMarketSetWitness ==
  /\ SetsCompoundMarket(confirmCalls, position.tokenAddress)
  /\ Len(confirmCalls) > 3
  /\ fromProtocol = "compound" /\ destProtocol = "Venus"
  /\ SetsCompoundMarket(msCalls, MsToken)
  /\ msFromProtocol = "Aave V3" /\ msSelectedProtocol = "compound"

\* C29: the destination protocol of MovePositionModal is never empty, is one
\* of the three catalog protocols, and never normalizes to the same name as the
\* source protocol, whatever fromProtocol the row passes.
DestDiffersFromSource ==
  /\ destProtocol # ""
  /\ destProtocol \in Range(protocols)
  /\ NormalizeProtocol(destProtocol) # NormalizeProtocol(fromProtocol)


\* the catalog's flag of an address, false when the address is absent
CatalogFlag(addr) ==
  \E k \in 1..Len(AllCollats) : AllCollats[k].address = addr /\ AllCollats[k].supported

\* the addresses and amounts of a selection, in order
Holdings(sel) == [k \in 1..Len(sel) |-> <<sel[k].token, sel[k].amount>>]

\* C25: once the effects of a change of the destination or of its support map
\* have run, every selected entry carries the catalog's supported flag of its
\* address, the change leaves the selected addresses and amounts alone, and
\* confirm is never enabled while a selected collateral is unsupported on the
\* current destination.
SupportedFollowsCatalog ==
  /\ [](isOpen =>
          \A k \in 1..Len(selectedCollats) :
            selectedCollats[k].supported = CatalogFlag(selectedCollats[k].token))
  /\ [](isOpen /\ canConfirm =>
          \A k \in 1..Len(selectedCollats) : CatalogFlag(selectedCollats[k].token))
  /\ [][destProtocol' # destProtocol \/ supportedCollaterals' # supportedCollaterals
          => Holdings(selectedCollats') = Holdings(selectedCollats)]_vars

\* C28: showing the collateral selector again, by expanding the "Collateral
\* to Move" section or by opening the modal again, leaves the modal's selected
\* collaterals and their amounts as they were before the selector was hidden.
SelectionSurvivesHiding ==
  [][(position.type = "borrow" /\ ~(isOpen /\ collateralOpen) /\ isOpen' /\ collateralOpen')
       => selectedCollats' = selectedCollats]_vars


\* C26: a probe changes the price map only for a lookup in the success state
\* with a finite price above zero, and then at its own key; a loading, failed
\* or zero-price lookup leaves the map as it was, so every collateral entry of
\* the map is strictly positive and no entry, once written, is cleared.
ProbeWritesPositiveOnly ==
  /\ [](\A k \in ProbeKeys : IsNone(tokenToPrices[k]) \/ The(tokenToPrices[k]) > 0)
  /\ [][\A k \in ProbeKeys :
         /\ tokenToPrices'[k] # tokenToPrices[k]
              => /\ probes'[k] # probes[k]
                 /\ probes'[k].status = "success" /\ probes'[k].finite
                 /\ probes'[k].quarters > 0
         /\ ~IsNone(tokenToPrices[k]) => ~IsNone(tokenToPrices'[k])
         /\ (probes'[k] # probes[k] /\ (probes'[k].status # "success" \/ probes'[k].quarters = 0))
              => tokenToPrices' = tokenToPrices]_vars

\* a priced collateral whose later lookup failed keeps its price, while the
\* other collateral's lookup succeeded with a price that rounds to zero and
\* wrote nothing
ProbeWritesPositiveOnlyWitness ==
  /\ probes["0xa"].status = "error" /\ tokenToPrices["0xa"] = Some(2)
  /\ probes["0xb"] = Lookup("success", TRUE, 1) /\ IsNone(tokenToPrices["0xb"])


\* C27: in MoveSupplyModal an executor call is in flight exactly while the
\* status is Executing: no dismissal or reset leaves Initial with a call still
\* running, no second execution starts while one is pending, and a completion
\* arriving after a reset does not change the status.
InFlightIffExecuting ==
  /\ [](msPending > 0 <=> msStatus = "Executing")
  /\ [](msPending <= 1)
  /\ [][(msPending' < msPending /\ msStatus # "Executing") => msStatus' = msStatus]_vars


\* an instruction of the plan
BuildsInstruction(calls) ==
  \E i \in 1..Len(calls) :
    calls[i].op \in {"buildUnlockDebt", "buildMoveCollateral", "buildBorrow"}

\* C30: a confirm whose debt amount was chosen with MAX while the on-chain
\* borrow balance is zero or not resolved, every earlier precondition being
\* met, fails with "No outstanding debt." and builds no instruction.
MaxWithoutDebtFails ==
  [][ (/\ handleConfirm
       /\ isMaxDebt /\ NoTokenBalance(tokenBalance)
       /\ Precondition(position, userAddress, decimals, destProtocol, flashProvider) = NULL)
        => /\ err' = "No outstanding debt."
           /\ ~BuildsInstruction(confirmCalls')
           /\ ~loading' ]_vars

========================================================================
